---- MODULE Spec2Model ----
\* Verification model of the leveled output engine in out.go: the per-level
\* channels, the global routing/newline state, the stack-trace policy, the
\* emission pipeline (stringOutput / doPrefixing / writeOutput) step by step
\* at the granularity of its lock sections, and the termination protocol.
EXTENDS Integers, Sequences, FiniteSets, TLC

\* ---------------------------------------------------------------- levels
LevelTrace == 0
LevelDebug == 1
LevelVerbose == 2
LevelInfo == 3
LevelNote == 4
LevelIssue == 5
LevelError == 6
LevelFatal == 7
LevelDiscard == 8
LevelAll == 9
Levels == LevelTrace..LevelFatal

\* ------------------------------------------------ metadata flag bits
Ldate == 1
Ltime == 2
Lmicroseconds == 4
Llongfile == 8
Lshortfile == 16
Llongfunc == 32
Lshortfunc == 64
Lpid == 128
Llevel == 256
LscreenFlags == Ltime + Lmicroseconds
LlogfileFlags == Lpid + Llevel + Ldate + Ltime + Lmicroseconds + Lshortfile + Lshortfunc

\* ------------------------------------------ target / stack-trace bits
ForScreen == 1
ForLogfile == 2
StackTraceNonZeroErrorExit == 4
StackTraceErrorExit == 8
StackTraceAllIssues == 16
ForBoth == ForScreen + ForLogfile
StackTraceExitToLogfile == StackTraceNonZeroErrorExit + ForLogfile

\* ------------------------------------------------ prefix insert modes
AlwaysInsert == 1
SmartInsert == 2
BlankInsert == 4
SkipFirstLine == 8

\* the "no error code" sentinel of the detailed-error support (deterr.go)
DefaultErrCode == 100

\* ------------------------------------------------------- bit helpers
RECURSIVE BitAnd(_, _)
BitAnd(a, b) ==
  IF a = 0 \/ b = 0 THEN 0
  ELSE 2 * BitAnd(a \div 2, b \div 2) + (IF a % 2 = 1 /\ b % 2 = 1 THEN 1 ELSE 0)

RECURSIVE BitOr(_, _)
BitOr(a, b) ==
  IF a = 0 THEN b ELSE IF b = 0 THEN a
  ELSE 2 * BitOr(a \div 2, b \div 2) + (IF a % 2 = 1 \/ b % 2 = 1 THEN 1 ELSE 0)

\* ---------------------------------------------------- text helpers
\* Texts are sequences of characters (one-character strings); decorative
\* values that depend on the environment (time, pid, call site, the stack
\* dump itself) are single opaque tokens.
NL == "\n"

SplitOn(s, c) ==
  LET cut == SelectSeq([i \in 1..Len(s) |-> i], LAMBDA i : s[i] = c)
      n == Len(cut)
  IN [k \in 1..(n + 1) |-> SubSeq(s, IF k = 1 THEN 1 ELSE cut[k - 1] + 1,
                                     IF k = n + 1 THEN Len(s) ELSE cut[k] - 1)]

RECURSIVE JoinFrom(_, _, _)
JoinFrom(ls, c, i) == IF i >= Len(ls) THEN ls[i] ELSE ls[i] \o <<c>> \o JoinFrom(ls, c, i + 1)

JoinOn(ls, c) == IF Len(ls) = 0 THEN <<>> ELSE JoinFrom(ls, c, 1)

DigitChar(d) == <<"0","1","2","3","4","5","6","7","8","9">>[d + 1]

RECURSIVE Digits(_)
Digits(n) == IF n < 10 THEN <<DigitChar(n)>> ELSE Digits(n \div 10) \o <<DigitChar(n % 10)>>

Spaces(n) == [i \in 1..n |-> " "]

\* a version that keeps the other mode bits under AlwaysInsert
EffectiveCtrlKeep(ctrl) == ctrl

\* InsertPrefix: "if ctrl&AlwaysInsert != 0 { ctrl = 0 }"
EffectiveCtrl(ctrl) == IF BitAnd(ctrl, AlwaysInsert) # 0 THEN 0 ELSE ctrl

\* a version that splices the sentinel code as well
SplicedPrefixAnyCode(prefix, errCode) ==
  LET parts == SplitOn(prefix, ":") IN
  IF errCode > 0 /\ Len(parts) = 2
  THEN parts[1] \o <<" ", "#">> \o Digits(errCode) \o <<":">> \o parts[2]
  ELSE prefix

\* InsertPrefix: parts[0] + fmt.Sprintf(" #%d:", errCode) + parts[1] when the
\* code is positive, not defaultErrCode, and Split(prefix, ":") has two parts
SplicedPrefix(prefix, errCode) ==
  LET parts == SplitOn(prefix, ":") IN
  IF errCode > 0 /\ errCode # DefaultErrCode /\ Len(parts) = 2
  THEN parts[1] \o <<" ", "#">> \o Digits(errCode) \o <<":">> \o parts[2]
  ELSE prefix

\* a version that prefixes an empty last segment as well
LinePrefixedEvenLastEmpty(idx, n, line, c) == ~(idx = 1 /\ BitAnd(c, SkipFirstLine) # 0)

\* InsertPrefix: line idx of n gets a prefix unless it is an empty last line or
\* the first line under SkipFirstLine
LinePrefixed(idx, n, line, c) ==
  ~((idx = n /\ line = <<>>) \/ (idx = 1 /\ BitAnd(c, SkipFirstLine) # 0))

\* a version that always inserts blanks
LineTextBlankAlways(line, c, p, sp) == sp \o line

\* InsertPrefix: spacePrefix+line under BlankInsert, prefix+line otherwise
LineText(line, c, p, sp) == IF BitAnd(c, BlankInsert) # 0 THEN sp \o line ELSE p \o line

\* a version without the empty-prefix return that splices a code into any prefix
InsertPrefixUnguarded(s, prefix, ctrl, errCode) ==
  LET c == EffectiveCtrl(ctrl)
      parts == SplitOn(prefix, ":")
      p == IF errCode > 0 /\ errCode # DefaultErrCode
           THEN parts[1] \o <<" ", "#">> \o Digits(errCode) \o <<":">>
                \o (IF Len(parts) >= 2 THEN parts[2] ELSE <<>>)
           ELSE prefix
      sp == Spaces(Len(p))
      lines == SplitOn(s, NL)
      n == Len(lines)
  IN JoinOn([i \in 1..n |-> IF LinePrefixed(i, n, lines[i], c) THEN LineText(lines[i], c, p, sp)
                            ELSE lines[i]], NL)

\* InsertPrefix(s, prefix, ctrl, errCode)
InsertPrefix(s, prefix, ctrl, errCode) ==
  IF prefix = <<>> THEN s
  ELSE
    LET c == EffectiveCtrl(ctrl)
        p == SplicedPrefix(prefix, errCode)
        sp == Spaces(Len(p))
        lines == SplitOn(s, NL)
        n == Len(lines)
    IN JoinOn([i \in 1..n |-> IF LinePrefixed(i, n, lines[i], c) THEN LineText(lines[i], c, p, sp)
                              ELSE lines[i]], NL)

\* a version that puts the level name before the pid
FlagStringLevelFirst(flags, level) ==
  (IF BitAnd(flags, Llevel) # 0 THEN <<"<LEVEL>">> ELSE <<>>)
  \o (IF BitAnd(flags, Lpid) # 0 THEN <<"[<pid>] ">> ELSE <<>>)
  \o (IF BitAnd(flags, Ldate) # 0 THEN <<"<date> ">> ELSE <<>>)
  \o (IF BitAnd(flags, Ltime + Lmicroseconds) # 0
        THEN (IF BitAnd(flags, Lmicroseconds) # 0 THEN <<"<time.micro> ">> ELSE <<"<time> ">>)
        ELSE <<>>)
  \o (IF BitAnd(flags, Lshortfile + Llongfile) # 0 THEN <<"<file:line[:func]>: ">> ELSE <<>>)

\* getFlagString: the leader, field by field in the code's order
FlagString(flags, level) ==
  (IF BitAnd(flags, Lpid) # 0 THEN <<"[<pid>] ">> ELSE <<>>)
  \o (IF BitAnd(flags, Llevel) # 0 THEN <<"<LEVEL>">> ELSE <<>>)
  \o (IF BitAnd(flags, Ldate) # 0 THEN <<"<date> ">> ELSE <<>>)
  \o (IF BitAnd(flags, Ltime + Lmicroseconds) # 0
        THEN (IF BitAnd(flags, Lmicroseconds) # 0 THEN <<"<time.micro> ">> ELSE <<"<time> ">>)
        ELSE <<>>)
  \o (IF BitAnd(flags, Lshortfile + Llongfile) # 0 THEN <<"<file:line[:func]>: ">> ELSE <<>>)

\* a version of levelCheck that passes every level through
LevelCheckNoClamp(level) == level

\* levelCheck
LevelCheck(level) ==
  IF level <= LevelTrace THEN LevelTrace
  ELSE IF level >= LevelDiscard THEN LevelDiscard
  ELSE level

\* getStackTrace(nil): "\nStack Trace: " + trace + "\n", trace being stackTrace(depth):
\* the goroutine header line, then the caller's frame lines of runtime.Stack up to and
\* including runtime.Stack's final newline (the scan stops at the end of the buffer)
StackText == <<NL, "Stack Trace: ", "goroutine 1 [running]:", NL, "main.main()", NL, "\t/src/app/main.go:9 +0x1d", NL, NL>>

\* strings.ToLower on ASCII text
UpperLower == [A |-> "a", B |-> "b", C |-> "c", D |-> "d", E |-> "e", F |-> "f", G |-> "g", H |-> "h", I |-> "i", J |-> "j", K |-> "k", L |-> "l", M |-> "m", N |-> "n", O |-> "o", P |-> "p", Q |-> "q", R |-> "r", S |-> "s", T |-> "t", U |-> "u", V |-> "v", W |-> "w", X |-> "x", Y |-> "y", Z |-> "z"]
ToLower(str) == [i \in 1..Len(str) |-> IF str[i] \in DOMAIN UpperLower THEN UpperLower[str[i]] ELSE str[i]]

\* the tokens of PKG_OUT_STACK_TRACE_CONFIG's vocabulary
TokBoth == <<"b", "o", "t", "h">>
TokScreen == <<"s", "c", "r", "e", "e", "n">>
TokLogfile == <<"l", "o", "g", "f", "i", "l", "e">>
TokNonzeroerrorexit == <<"n", "o", "n", "z", "e", "r", "o", "e", "r", "r", "o", "r", "e", "x", "i", "t">>
TokErrorexit == <<"e", "r", "r", "o", "r", "e", "x", "i", "t">>
TokAllissues == <<"a", "l", "l", "i", "s", "s", "u", "e", "s">>
TokAll == <<"a", "l", "l">>
TokOff == <<"o", "f", "f">>
TokFoo == <<"f", "o", "o">>
TokBar == <<"b", "a", "r">>

\* a version without the "all" alias
ParseStackTokNoAlias(cfg, tok) ==
  LET t == ToLower(tok) IN
  CASE t = TokBoth -> BitOr(cfg, ForBoth)
    [] t = TokScreen -> BitOr(cfg, ForScreen)
    [] t = TokLogfile -> BitOr(cfg, ForLogfile)
    [] t = TokNonzeroerrorexit -> BitOr(cfg, StackTraceNonZeroErrorExit)
    [] t = TokErrorexit -> BitOr(cfg, StackTraceErrorExit)
    [] t = TokAllissues -> BitOr(cfg, StackTraceAllIssues)
    [] t = TokOff -> 0
    [] OTHER -> cfg

\* the stack-trace override string, already split on ","; <<>> = unset
ParseStackTok(cfg, tok) ==
  LET t == ToLower(tok) IN
  CASE t = TokBoth -> BitOr(cfg, ForBoth)
    [] t = TokScreen -> BitOr(cfg, ForScreen)
    [] t = TokLogfile -> BitOr(cfg, ForLogfile)
    [] t = TokNonzeroerrorexit -> BitOr(cfg, StackTraceNonZeroErrorExit)
    [] t = TokErrorexit -> BitOr(cfg, StackTraceErrorExit)
    [] t \in {TokAllissues, TokAll} -> BitOr(cfg, StackTraceAllIssues)
    [] t = TokOff -> 0
    [] OTHER -> cfg

\* a version that keeps the programmatic config when the override denotes nothing
StackCfgFallback(progCfg, env) ==
  IF env # <<>> /\ Len(env) = 2 /\ ParseStackTok(ParseStackTok(0, env[1]), env[2]) # 0
  THEN ParseStackTok(ParseStackTok(0, env[1]), env[2])
  ELSE progCfg

\* stackCfg as chosen at the top of stackTraceWanted
StackCfg(progCfg, env) ==
  IF env # <<>> /\ Len(env) = 2
  THEN ParseStackTok(ParseStackTok(0, env[1]), env[2])
  ELSE progCfg

\* a version that accepts any of the trigger classes
StackTraceWantedAnyTrigger(progCfg, env, lvl, terminal, exitVal, outputTgt) ==
  LET cfg == StackCfg(progCfg, env) IN
  /\ BitAnd(cfg, outputTgt) # 0
  /\ \/ BitAnd(cfg, StackTraceNonZeroErrorExit) # 0 /\ terminal /\ exitVal # 0
     \/ BitAnd(cfg, StackTraceErrorExit) # 0 /\ terminal /\ lvl >= LevelIssue
     \/ BitAnd(cfg, StackTraceAllIssues) # 0 /\ lvl >= LevelIssue

\* stackTraceWanted(terminal, exitVal, outputTgt) for a channel of level lvl
StackTraceWanted(progCfg, env, lvl, terminal, exitVal, outputTgt) ==
  LET cfg == StackCfg(progCfg, env) IN
  IF BitAnd(cfg, outputTgt) = 0 THEN FALSE
  ELSE IF BitAnd(cfg, StackTraceNonZeroErrorExit) # 0 THEN terminal /\ exitVal # 0
  ELSE IF BitAnd(cfg, StackTraceErrorExit) # 0 THEN terminal /\ lvl >= LevelIssue
  ELSE IF BitAnd(cfg, StackTraceAllIssues) # 0 THEN lvl >= LevelIssue
  ELSE FALSE

\* os.Getenv("PKG_OUT_NO_EXIT") != "1"
ExitsProcess(noExit) == ~noExit

\* ------------------------------------------------------------ literals
PfxTrace == <<"T","r","a","c","e",":"," ">>
PfxDebug == <<"D","e","b","u","g",":"," ">>
PfxNote == <<"N","o","t","e",":"," ">>
PfxIssue == <<"I","s","s","u","e",":"," ">>
PfxError == <<"E","r","r","o","r",":"," ">>
PfxFatal == <<"F","a","t","a","l",":"," ">>
MsgBoom == <<"b","o","o","m">>
MsgHi == <<"h","i">>
MsgLog == <<"l","o","g">>
MsgThresholdTgt == <<"I", "n", "v", "a", "l", "i", "d", " ", "s", "c", "r", "e", "e", "n", "/", "l", "o", "g", "f", "i", "l", "e", " ", "g", "i", "v", "e", "n", " ", "f", "o", "r", " ", "T", "h", "r", "e", "s", "h", "o", "l", "d", "(", ")">>
MsgPrefixDiscard == <<"P", "r", "e", "f", "i", "x", " ", "i", "s", " ", "n", "o", "t", " ", "d", "e", "f", "i", "n", "e", "d", " ", "f", "o", "r", " ", "l", "e", "v", "e", "l", " ", "d", "i", "s", "c", "a", "r", "d", ",", " ", "s", "h", "o", "u", "l", "d", " ", "n", "e", "v", "e", "r", " ", "b", "e", " ", "r", "e", "q", "u", "e", "s", "t", "e", "d">>
MsgFlagsTgt == <<"I", "n", "v", "a", "l", "i", "d", " ", "i", "d", "e", "n", "t", "i", "f", "i", "c", "a", "t", "i", "o", "n", " ", "o", "f", " ", "s", "c", "r", "e", "e", "n", " ", "o", "r", " ", "l", "o", "g", "f", "i", "l", "e", " ", "t", "a", "r", "g", "e", "t", " ", "f", "o", "r", " ", "F", "l", "a", "g", "s", "(", ")">>

\* what the Go runtime prints for the index panic and for a nil *os.File
MsgIndexPanic == <<"panic: runtime error: index out of range [-1]", NL>>
MsgNilPanic == <<"panic: runtime error: invalid memory address or nil pointer dereference", NL>>
MsgDeadlock == <<"fatal error: all goroutines are asleep - deadlock!", NL>>
\* Fatalln texts of SetLogFile / UseTempLogFile when the file cannot be created
MsgLogOpen == <<"F", "a", "i", "l", "e", "d", " ", "t", "o", " ", "o", "p", "e", "n", " ", "l", "o", "g", " ", "f", "i", "l", "e", ":", " ", "o", "u", "t", ".", "l", "o", "g", " ", "E", "r", "r", ":", " ">> \o <<"<err>">>
MsgTempOpen == <<"<err>">>

\* io.Writer handles: "bad" is a writer whose Write always fails, "file" the
\* *os.File SetLogFile / UseTempLogFile opened
Hndls == {"stdout", "stderr", "discard", "bad", "file"}

\* the package-level LvlOutput values TRACE .. FATAL as first constructed
InitChan(l) ==
  [prefix |-> <<PfxTrace, PfxDebug, <<>>, <<>>, PfxNote, PfxIssue, PfxError, PfxFatal>>[l + 1],
   screenHndl |-> IF l \in {LevelError, LevelFatal} THEN "stderr" ELSE "stdout",
   screenFlags |-> IF l \in {LevelTrace, LevelDebug} THEN LscreenFlags ELSE 0,
   logfileHndl |-> "discard",
   logFlags |-> LlogfileFlags]

\* names runtime.FuncForPC resolves for the client's call sites
MainSite == <<"m", ".", "r", "u", "n">>
PkgSite == <<"p", ".", "w", "o", "r", "k">>

\* a call into the package API
Call(fn, name, lvl, ln, term, dfltEv, ev, msg, tgt, arg) ==
  [fn |-> fn, name |-> name, lvl |-> lvl, ln |-> ln, term |-> term,
   dfltEv |-> dfltEv, ev |-> ev, msg |-> msg, tgt |-> tgt, arg |-> arg, w |-> "discard",
   pfx |-> <<>>, code |-> 0, site |-> MainSite, det |-> FALSE, form |-> IF ln THEN "ln" ELSE "print"]

\* emission wrappers: Note(..), Noteln(..), IssueExit(c, ..), Fatal(..), ...
Emit(name, lvl, ln, term, dfltEv, ev, msg) ==
  Call("Emit", name, lvl, ln, term, dfltEv, ev, msg, 0, 0)

\* the logfile-name note printed by a deferred hook (package doc example)
HookNoteCall == Emit("Noteln", LevelNote, TRUE, FALSE, FALSE, 0, MsgLog)
FatallnCall(msg) == Emit("Fatalln", LevelFatal, TRUE, TRUE, TRUE, 0, msg)

\* a version of Sprintln that adds no newline
MsgOfNoNewline(c) == c.msg

\* fmt.Sprint / fmt.Sprintln of a single string argument
MsgOf(c) == IF c.ln THEN c.msg \o <<NL>> ELSE c.msg

NewFrame(c, k, pc) ==
  [fn |-> c.fn, call |-> c, k |-> k, pc |-> pc, lvl |-> c.lvl, term |-> c.term,
   ev |-> 0, msg |-> MsgOf(c), sThr |-> 0, lThr |-> 0, scrST |-> FALSE, logST |-> FALSE,
   tgt |-> "scr", phase |-> "msg", ctrl |-> 0, rdVer |-> 0, txt |-> <<>>, stTxt |-> <<>>, pst |-> <<>>,
   hndl |-> "discard", upfx |-> <<>>, uflags |-> 0, failed |-> FALSE, hooks |-> <<>>,
   resN |-> 0, resS |-> <<>>, resW |-> "", dflt |-> FALSE, proc |-> 0, wt |-> {},
   lastNL |-> FALSE, resB |-> FALSE, wseq |-> <<>>, supp |-> {},
   fstr |-> [t \in {"scr", "log"} |-> MsgOf(c)], fno |-> {}, fskip |-> {},
   comp |-> [t \in {"scr", "log"} |-> [flags |-> 0, ctrl |-> 0, pfx |-> <<>>]],
   bound |-> {}, wl |-> FALSE]

EntryPc(c) ==
  CASE c.fn = "Emit" -> "wrap"
    [] c.fn = "Threshold" -> "thLock"
    [] c.fn = "Exit" -> "exit"
    [] OTHER -> "run"

VARIABLES
  mW,               \* holder of mutex.Lock (0 = none)
  mR,               \* per process count of mutex.RLock held
  screenThreshold, logThreshold,
  screenNewline, logfileNewline,
  nlVer,            \* number of updates of each newline flag so far
  stackTraceConfig,
  errorExitVal,
  logFileName,      \* name of the log file SetLogFile / UseTempLogFile opened ("" = none)
  deferFunc,        \* "nil", "plain" or "note" (prints the logfile name)
  chan,             \* per level: prefix, handles, flags
  chanHist,         \* the successive values of chan so far
  env,              \* [st: PKG_OUT_STACK_TRACE_CONFIG split on ",", noExit: PKG_OUT_NO_EXIT = "1",
                    \*  scope: PKG_OUT_DEBUG_SCOPE, fmtr: the formatter the client registered on NOTE]
  sink,             \* per handle: the writes it received, [p, k, b]
  prog,             \* per process: the API calls it makes, in order
  ncall,            \* per process: calls started so far
  stk,              \* per process: call frames (last = innermost)
  done,             \* completed top-level calls
  exited, exitCode, exitCall

vars == <<mW, mR, screenThreshold, logThreshold, screenNewline, logfileNewline, nlVer,
          stackTraceConfig, errorExitVal, logFileName, deferFunc, chan, chanHist, env, sink,
          prog, ncall, stk, done, exited, exitCode, exitCall>>

Procs == {1, 2}

\* ------------------------------------------------------ frame helpers
Top(p) == stk[p][Len(stk[p])]
\* (a frame that moves on is no longer waiting in mutex.Lock)
SetTop(p, f) == [stk EXCEPT ![p] = [@ EXCEPT ![Len(@)] = [f EXCEPT !.wl = FALSE]]]
\* the parent frame f2 resumes after the pushed frame f returns
PushOver(p, f2, f) == [stk EXCEPT ![p] = [@ EXCEPT ![Len(@)] = [f2 EXCEPT !.wl = FALSE]] \o <<f>>]
Running(p) == ~exited /\ stk[p] # <<>>
At(p, pc) == Running(p) /\ Top(p).pc = pc
\* mutex.Lock can be granted: no writer, no reader
MFree == mW = 0 /\ \A q \in Procs : mR[q] = 0
\* mutex.RLock can be granted to p: no writer holds the lock and no other
\* goroutine is blocked in mutex.Lock (a pending writer blocks new readers)
RLockFree(p) == mW = 0 /\ ~\E q \in Procs \ {p} : Running(q) /\ Top(q).wl
\* a Write of b to handle h by process p; failing and discarding writers keep nothing
Wrote(h, p, b) ==
  IF h \in {"discard", "bad"} \/ b = <<>> THEN sink
  ELSE [sink EXCEPT ![h] = Append(@, [p |-> p, k |-> stk[p][1].k, b |-> b])]
TgtBit(t) == IF t = "scr" THEN ForScreen ELSE ForLogfile
Last(s) == s[Len(s)]

\* ------------------------------------------------------------- actions
\* a process makes its next API call
StartCall(p) ==
  /\ ~exited /\ stk[p] = <<>> /\ ncall[p] < Len(prog[p])
  /\ LET c == prog[p][ncall[p] + 1] IN
       stk' = [stk EXCEPT ![p] = <<[NewFrame(c, ncall[p] + 1, EntryPc(c)) EXCEPT !.proc = p]>>]
  /\ ncall' = [ncall EXCEPT ![p] = @ + 1]
  /\ UNCHANGED <<mW, mR, screenThreshold, logThreshold, screenNewline, logfileNewline, nlVer,
                 stackTraceConfig, errorExitVal, logFileName, deferFunc, chan, chanHist, env, sink, prog,
                 done, exited, exitCode, exitCall>>

\* output() (the print form) calls detErr.SetLvlOut(o) on a DetailedError
\* among its arguments; outputln() and outputf() do not
BindsDetErr(c) == c.det /\ c.form = "print"

\* the public wrapper (Note, IssueExit, Fatal, ...): mutex.Lock; terminate/exitVal;
\* mutex.Unlock; then output/outputln/outputf binds a DetailedError argument
EmitWrap(p) ==
  /\ At(p, "wrap") /\ MFree
  /\ LET f == Top(p) IN
       stk' = SetTop(p, [f EXCEPT !.pc = "thr",
                               !.ev = IF f.call.dfltEv THEN errorExitVal ELSE f.call.ev,
                               !.dflt = screenNewline /\ chan[LevelFatal] = InitChan(LevelFatal)
                                        /\ screenThreshold = LevelInfo
                                        /\ stackTraceConfig = StackTraceExitToLogfile
                                        /\ env.st = <<>>,
                               !.bound = IF BindsDetErr(f.call) THEN {f.lvl} ELSE {}])
  /\ UNCHANGED <<mW, mR, screenThreshold, logThreshold, screenNewline, logfileNewline, nlVer,
                 stackTraceConfig, errorExitVal, logFileName, deferFunc, chan, chanHist, env, sink, prog,
                 ncall, done, exited, exitCode, exitCall>>

\* stringOutput: snapshot of the two thresholds under mutex
EmitThresholds(p) ==
  /\ At(p, "thr") /\ MFree
  /\ stk' = SetTop(p, [Top(p) EXCEPT !.pc = "stc", !.sThr = screenThreshold, !.lThr = logThreshold])
  /\ UNCHANGED <<mW, mR, screenThreshold, logThreshold, screenNewline, logfileNewline, nlVer,
                 stackTraceConfig, errorExitVal, logFileName, deferFunc, chan, chanHist, env, sink, prog,
                 ncall, done, exited, exitCode, exitCall>>

\* the replacement text the registered Formatter.FormatMessage returns
FmtRes == <<"f", "m", "t", NL>>

\* o.formatter == nil
NoFormatter == [set |-> FALSE, apply |-> 0, noOut |-> 0, skip |-> FALSE]

\* o.formatter: a Formatter (defined outside out.go) registered on the NOTE
\* channel by client code; FormatMessage returns FmtRes, an applyMask, a
\* noOutputMask and skipNativePfx
FormatterOf(lvl) == IF lvl = LevelNote THEN env.fmtr ELSE NoFormatter

\* a version where the formatter's results reach every target
FmtCoversAny(fm, t) == fm.set

\* applyMask&forScreen != 0 (resp. forLogfile): the formatter's results apply to t
FmtCovers(fm, t) == fm.set /\ BitAnd(fm.apply, TgtBit(t)) # 0

\* stringOutput: for Issue and above, getStackTrace and o.stackTraceWanted(dying,
\* exitVal, ForScreen) (its own mutex.Lock section)
EmitStackCfg(p) ==
  /\ At(p, "stc") /\ (Top(p).lvl < LevelIssue \/ MFree)
  /\ LET f == Top(p) IN
       stk' = SetTop(p, [f EXCEPT !.pc = "stc2",
           !.stTxt = IF f.lvl >= LevelIssue THEN StackText ELSE <<>>,
           !.scrST = f.lvl >= LevelIssue /\ StackTraceWanted(stackTraceConfig, env.st, f.lvl, f.term, f.ev, ForScreen)])
  /\ UNCHANGED <<mW, mR, screenThreshold, logThreshold, screenNewline, logfileNewline, nlVer,
                 stackTraceConfig, errorExitVal, logFileName, deferFunc, chan, chanHist, env, sink, prog,
                 ncall, done, exited, exitCode, exitCall>>

\* stringOutput: for Issue and above o.stackTraceWanted(dying, exitVal, ForLogfile)
\* (a second mutex.Lock section); then the formatter, if any, sets up each
\* target's text and controls
EmitStackLog(p) ==
  /\ At(p, "stc2") /\ (Top(p).lvl < LevelIssue \/ MFree)
  /\ LET f == Top(p)
         fm == FormatterOf(f.lvl) IN
       stk' = SetTop(p, [f EXCEPT !.pc = "scrChk",
           !.logST = f.lvl >= LevelIssue /\ StackTraceWanted(stackTraceConfig, env.st, f.lvl, f.term, f.ev, ForLogfile),
           !.fstr = [t \in {"scr", "log"} |-> IF FmtCovers(fm, t) THEN FmtRes ELSE f.msg],
           !.fno = {t \in {"scr", "log"} : FmtCovers(fm, t) /\ BitAnd(fm.noOut, TgtBit(t)) # 0},
           !.fskip = {t \in {"scr", "log"} : FmtCovers(fm, t) /\ fm.skip}])
  /\ UNCHANGED <<mW, mR, screenThreshold, logThreshold, screenNewline, logfileNewline, nlVer,
                 stackTraceConfig, errorExitVal, logFileName, deferFunc, chan, chanHist, env, sink, prog,
                 ncall, done, exited, exitCode, exitCall>>

\* a version of the gate that ignores the threshold
ShouldEmitAlways(level, thr) == level # LevelDiscard

\* the gate of a target: level >= threshold && level != LevelDiscard
ShouldEmit(level, thr) == level >= thr /\ level # LevelDiscard

\* stringOutput: is the screen (then the logfile) target active for this level
EmitTargetCheck(p) ==
  /\ Running(p) /\ Top(p).pc \in {"scrChk", "logChk"}
  /\ LET f == Top(p)
         scr == f.pc = "scrChk"
         thr == IF scr THEN f.sThr ELSE f.lThr
         on == ShouldEmit(f.lvl, thr) /\ (IF scr THEN "scr" ELSE "log") \notin f.fno
     IN stk' = SetTop(p,
          IF on THEN [f EXCEPT !.pc = "pNL", !.tgt = IF scr THEN "scr" ELSE "log",
                               !.phase = "msg", !.txt = <<>>, !.pst = <<>>]
          ELSE [f EXCEPT !.pc = IF scr THEN "logChk" ELSE "dying"])
  /\ UNCHANGED <<mW, mR, screenThreshold, logThreshold, screenNewline, logfileNewline, nlVer,
                 stackTraceConfig, errorExitVal, logFileName, deferFunc, chan, chanHist, env, sink, prog,
                 ncall, done, exited, exitCode, exitCall>>

\* doPrefixing: read the target's newline flag under mutex, pick SkipFirstLine
PfxNewline(p) ==
  /\ At(p, "pNL") /\ MFree
  /\ LET f == Top(p)
         onNL == IF f.tgt = "scr" THEN screenNewline ELSE logfileNewline
     IN stk' = SetTop(p, [f EXCEPT !.pc = "pP",
                  !.ctrl = IF ~onNL THEN BitOr(SmartInsert, SkipFirstLine) ELSE SmartInsert,
                  !.rdVer = IF f.phase = "msg" THEN nlVer[f.tgt] ELSE f.rdVer])
  /\ UNCHANGED <<mW, mR, screenThreshold, logThreshold, screenNewline, logfileNewline, nlVer,
                 stackTraceConfig, errorExitVal, logFileName, deferFunc, chan, chanHist, env, sink, prog,
                 ncall, done, exited, exitCode, exitCall>>

\* the ctrl doPrefixing hands InsertPrefix for a stack trace: the same smartInsert
\* (plus SkipFirstLine off a fresh line) as for the message
StackCtrl(ctrl) == ctrl

\* doPrefixing: read the level prefix (o.mu.RLock) and InsertPrefix it
PfxPrefix(p) ==
  /\ At(p, "pP")
  /\ LET f == Top(p)
         src == IF f.phase = "msg" THEN f.fstr[f.tgt] ELSE f.stTxt
         s == InsertPrefix(src, chan[f.lvl].prefix,
                           IF f.phase = "msg" THEN f.ctrl ELSE StackCtrl(f.ctrl), DefaultErrCode)
     IN stk' = SetTop(p, [f EXCEPT !.pc = "pF",
                           !.upfx = IF f.phase = "msg" THEN chan[f.lvl].prefix ELSE @,
                           !.txt = IF f.phase = "msg" THEN s ELSE @,
                           !.pst = IF f.phase # "msg" THEN s ELSE @])
  /\ UNCHANGED <<mW, mR, screenThreshold, logThreshold, screenNewline, logfileNewline, nlVer,
                 stackTraceConfig, errorExitVal, logFileName, deferFunc, chan, chanHist, env, sink, prog,
                 ncall, done, exited, exitCode, exitCall>>

\* strings.Contains(funcName, part)
Contains(str, part) == \E i \in 0..(Len(str) - Len(part)) : SubSeq(str, i + 1, i + Len(part)) = part

\* a version that filters every level
ScopeSuppressedAnyLevel(lvl, site, scope) ==
  scope # <<>> /\ ~\E i \in 1..Len(scope) : Contains(site, scope[i])

\* insertFlagMetadata: with PKG_OUT_DEBUG_SCOPE set, Trace/Debug output from a
\* function whose name contains none of its comma-separated parts is suppressed
ScopeSuppressed(lvl, site, scope) ==
  /\ scope # <<>> /\ lvl \in {LevelDebug, LevelTrace}
  /\ ~\E i \in 1..Len(scope) : Contains(site, scope[i])

\* insertFlagMetadata: read the target's flags (o.mu.RLock), build and insert the leader
\* (with the formatter's skipNativePfx, doPrefixing returns its input unprefixed);
\* a suppressed message skips the target's write; then, if this target wants a
\* stack trace, doPrefixing runs again on it
PfxFlags(p) ==
  /\ At(p, "pF")
  /\ LET f == Top(p)
         flags == IF f.tgt = "scr" THEN chan[f.lvl].screenFlags ELSE chan[f.lvl].logFlags
         leader == FlagString(flags, f.lvl)
         src == IF f.phase = "msg" THEN f.txt ELSE f.pst
         s == IF f.tgt \in f.fskip THEN (IF f.phase = "msg" THEN f.fstr[f.tgt] ELSE f.stTxt)
              ELSE IF leader = <<>> THEN src ELSE InsertPrefix(src, leader, f.ctrl, 0)
         wantST == IF f.tgt = "scr" THEN f.scrST ELSE f.logST
         supp == f.phase = "msg" /\ ScopeSuppressed(f.lvl, f.call.site, env.scope)
         nxt == IF supp THEN (IF f.tgt = "scr" THEN "logChk" ELSE "dying")
                ELSE IF f.phase = "msg" /\ wantST /\ f.stTxt # <<>> THEN "pNL"
                ELSE IF f.phase = "exit" THEN "exW" ELSE "wo1"
     IN stk' = SetTop(p, [f EXCEPT !.pc = nxt,
                           !.uflags = IF f.phase = "msg" THEN flags ELSE @,
                           !.comp = IF f.phase = "msg"
                                    THEN [@ EXCEPT ![f.tgt] = [flags |-> flags, ctrl |-> f.ctrl, pfx |-> f.upfx]]
                                    ELSE @,
                           !.supp = IF supp THEN @ \cup {f.tgt} ELSE @,
                           !.txt = IF f.phase = "msg" THEN s ELSE @,
                           !.pst = IF f.phase # "msg" THEN s ELSE <<>>,
                           !.phase = IF nxt = "pNL" THEN "stack" ELSE @])
  /\ UNCHANGED <<mW, mR, screenThreshold, logThreshold, screenNewline, logfileNewline, nlVer,
                 stackTraceConfig, errorExitVal, logFileName, deferFunc, chan, chanHist, env, sink, prog,
                 ncall, done, exited, exitCode, exitCall>>

\* writeOutput: read the prefix and the target's handle (o.mu.RLock)
WriteHandles(p) ==
  /\ At(p, "wo1")
  /\ LET f == Top(p) IN
       stk' = SetTop(p, [f EXCEPT !.pc = "wW",
                  !.hndl = IF f.tgt = "scr" THEN chan[f.lvl].screenHndl ELSE chan[f.lvl].logfileHndl])
  /\ UNCHANGED <<mW, mR, screenThreshold, logThreshold, screenNewline, logfileNewline, nlVer,
                 stackTraceConfig, errorExitVal, logFileName, deferFunc, chan, chanHist, env, sink, prog,
                 ncall, done, exited, exitCode, exitCall>>

\* writeOutput: mutex.Lock; hndl.Write(s); mutex.Unlock; an error returns up to
\* output() / outputln() / outputf(), or to the caller of LvlOutput.Write
WriteMsg(p) ==
  /\ At(p, "wW") /\ MFree
  /\ LET f == Top(p) IN
       IF f.hndl = "bad"
       THEN /\ stk' = SetTop(p, [f EXCEPT !.pc = IF f.call.name = "Write" THEN "ret" ELSE "oErr",
                                          !.failed = TRUE, !.wt = @ \cup {f.tgt}])
            /\ UNCHANGED sink
       ELSE /\ stk' = SetTop(p, [f EXCEPT !.pc = "wNL", !.wt = @ \cup {f.tgt},
                                          !.lastNL = f.txt # <<>> /\ Last(f.txt) = NL,
                                          !.wseq = Append(@, [t |-> f.tgt, kind |-> "msg", b |-> f.txt,
                                                              nl |-> f.txt # <<>> /\ Last(f.txt) = NL])])
            /\ sink' = Wrote(f.hndl, p, f.txt)
  /\ UNCHANGED <<mW, mR, screenThreshold, logThreshold, screenNewline, logfileNewline, nlVer,
                 stackTraceConfig, errorExitVal, logFileName, deferFunc, chan, chanHist, env, prog,
                 ncall, done, exited, exitCode, exitCall>>

\* a version that never writes the corrective newline
NeedsCorrectiveNLNever(dying, onNewline) == FALSE

\* corrective newline of a dying emission whose text left the stream mid-line
NeedsCorrectiveNL(dying, onNewline) == dying /\ ~onNewline

\* a version that leaves the flag false after the corrective newline
FlagAfterWriteNoFix(nl, fix) == nl

\* the newline flag after the message write and the corrective newline
FlagAfterWrite(nl, fix) == nl \/ fix

\* writeOutput: mutex.Lock; update the newline flag from s[len(s)-1] (an index
\* panic, exiting with status 2, when s is empty); corrective newline; mutex.Unlock
WriteNewline(p) ==
  /\ At(p, "wNL") /\ MFree
  /\ LET f == Top(p) IN
       IF f.txt = <<>>
       THEN /\ exited' = TRUE /\ exitCode' = 2 /\ exitCall' = f
            /\ sink' = Wrote("stderr", p, MsgIndexPanic)
            /\ UNCHANGED <<stk, screenNewline, logfileNewline, nlVer>>
       ELSE LET nl == Last(f.txt) = NL
                fix == NeedsCorrectiveNL(f.term, nl)
                flag == FlagAfterWrite(nl, fix)
            IN /\ stk' = SetTop(p, [f EXCEPT !.pc = "wST", !.lastNL = IF fix THEN TRUE ELSE @,
                       !.wseq = IF fix THEN Append(@, [t |-> f.tgt, kind |-> "nl", b |-> <<NL>>, nl |-> TRUE]) ELSE @])
               /\ sink' = IF fix THEN Wrote(f.hndl, p, <<NL>>) ELSE sink
               /\ screenNewline' = IF f.tgt = "scr" THEN flag ELSE screenNewline
               /\ logfileNewline' = IF f.tgt = "log" THEN flag ELSE logfileNewline
               /\ nlVer' = [nlVer EXCEPT ![f.tgt] = @ + 1]
               /\ UNCHANGED <<exited, exitCode, exitCall>>
  /\ UNCHANGED <<mW, mR, screenThreshold, logThreshold, stackTraceConfig, errorExitVal, logFileName,
                 deferFunc, chan, chanHist, env, prog, ncall, done>>

\* writeOutput: o.stackTraceWanted(dying, exitVal, outputTgt) (its own mutex.Lock section)
WriteStack(p) ==
  /\ At(p, "wST") /\ MFree
  /\ LET f == Top(p)
         want == StackTraceWanted(stackTraceConfig, env.st, f.lvl, f.term, f.ev, TgtBit(f.tgt))
     IN stk' = SetTop(p, [f EXCEPT !.pc = IF want THEN "wST2" ELSE IF f.tgt = "scr" THEN "logChk" ELSE "dying"])
  /\ UNCHANGED <<mW, mR, screenThreshold, logThreshold, screenNewline, logfileNewline, nlVer,
                 stackTraceConfig, errorExitVal, logFileName, deferFunc, chan, chanHist, env, sink, prog,
                 ncall, done, exited, exitCode, exitCall>>

\* writeOutput: mutex.Lock; hndl.Write(stacktrace); mutex.Unlock
WriteStackWrite(p) ==
  /\ At(p, "wST2") /\ MFree
  /\ LET f == Top(p) IN
       /\ stk' = SetTop(p, [f EXCEPT !.pc = IF f.tgt = "scr" THEN "logChk" ELSE "dying",
                    !.lastNL = IF f.pst # <<>> THEN Last(f.pst) = NL ELSE @,
                    !.wseq = Append(@, [t |-> f.tgt, kind |-> "st", b |-> f.pst, nl |-> f.pst # <<>> /\ Last(f.pst) = NL])])
       /\ sink' = Wrote(f.hndl, p, f.pst)
  /\ UNCHANGED <<mW, mR, screenThreshold, logThreshold, screenNewline, logfileNewline, nlVer,
                 stackTraceConfig, errorExitVal, logFileName, deferFunc, chan, chanHist, env, prog,
                 ncall, done, exited, exitCode, exitCall>>

\* output(): a write error is printed to os.Stderr under mutex
OutputErr(p) ==
  /\ At(p, "oErr") /\ MFree
  /\ stk' = SetTop(p, [Top(p) EXCEPT !.pc = "oHook"])
  /\ sink' = Wrote("stderr", p, <<"<write error>">>)
  /\ UNCHANGED <<mW, mR, screenThreshold, logThreshold, screenNewline, logfileNewline, nlVer,
                 stackTraceConfig, errorExitVal, logFileName, deferFunc, chan, chanHist, env, prog,
                 ncall, done, exited, exitCode, exitCall>>

\* a version that hands the hook the call's own exit value
HookArgCallExit(f) == f.ev

\* the value deferFunc is called with: atomic.LoadInt32(&errorExitVal)
HookArg(f) == errorExitVal

\* termination protocol (end of stringOutput when dying, and output()'s error
\* path): mutex.RLock; deferFunc(errorExitVal) if set, still holding the RLock
DyingHook(p) ==
  /\ Running(p) /\ Top(p).pc \in {"dying", "oHook"}
  /\ LET f == Top(p) IN
       IF f.pc = "dying" /\ ~f.term
       THEN /\ stk' = SetTop(p, [f EXCEPT !.pc = "ret"])
            /\ UNCHANGED mR
       ELSE /\ RLockFree(p)
            /\ mR' = [mR EXCEPT ![p] = @ + 1]
            /\ LET f2 == [f EXCEPT !.pc = "hookRet",
                            !.hooks = IF deferFunc # "nil" THEN Append(@, HookArg(f)) ELSE @]
               IN stk' = IF deferFunc = "note"
                         THEN PushOver(p, f2, [NewFrame(HookNoteCall, f.k, "wrap") EXCEPT !.proc = p])
                         ELSE SetTop(p, f2)
  /\ UNCHANGED <<mW, screenThreshold, logThreshold, screenNewline, logfileNewline, nlVer,
                 stackTraceConfig, errorExitVal, logFileName, deferFunc, chan, chanHist, env, sink, prog,
                 ncall, done, exited, exitCode, exitCall>>

\* mutex.RUnlock after the hook
HookReturn(p) ==
  /\ At(p, "hookRet")
  /\ mR' = [mR EXCEPT ![p] = @ - 1]
  /\ stk' = SetTop(p, [Top(p) EXCEPT !.pc = "hookExit"])
  /\ UNCHANGED <<mW, screenThreshold, logThreshold, screenNewline, logfileNewline, nlVer,
                 stackTraceConfig, errorExitVal, logFileName, deferFunc, chan, chanHist, env, sink, prog,
                 ncall, done, exited, exitCode, exitCall>>

\* os.Exit(errorExitVal) unless PKG_OUT_NO_EXIT=1
HookExit(p) ==
  /\ At(p, "hookExit")
  /\ IF ExitsProcess(env.noExit)
     THEN /\ exited' = TRUE /\ exitCode' = errorExitVal
          /\ exitCall' = Top(p)
          /\ UNCHANGED stk
     ELSE /\ stk' = SetTop(p, [Top(p) EXCEPT !.pc = "ret"])
          /\ UNCHANGED <<exited, exitCode, exitCall>>
  /\ UNCHANGED <<mW, mR, screenThreshold, logThreshold, screenNewline, logfileNewline, nlVer,
                 stackTraceConfig, errorExitVal, logFileName, deferFunc, chan, chanHist, env, sink, prog,
                 ncall, done>>

\* a call returns; a top-level call is recorded as done
Return(p) ==
  /\ At(p, "ret")
  /\ LET f == Top(p) IN
       IF Len(stk[p]) = 1
       THEN /\ done' = Append(done, f)
            /\ stk' = [stk EXCEPT ![p] = <<>>]
       ELSE /\ stk' = [stk EXCEPT ![p] = SubSeq(@, 1, Len(@) - 1)]
            /\ UNCHANGED done
  /\ UNCHANGED <<mW, mR, screenThreshold, logThreshold, screenNewline, logfileNewline, nlVer,
                 stackTraceConfig, errorExitVal, logFileName, deferFunc, chan, chanHist, env, sink, prog,
                 ncall, exited, exitCode, exitCall>>

\* ---------------------------------------------------------- Exit(v)
\* the threshold a frame read for target t
ThrOf(f, t) == IF t = "scr" THEN f.sThr ELSE f.lThr

\* Exit(v): FATAL.exit(v) when v != 0, INFO.exit(v) otherwise; exit() takes
\* the stack trace and both thresholds under mutex
ExitStart(p) ==
  /\ At(p, "exit") /\ MFree
  /\ LET f == Top(p) IN
       stk' = SetTop(p, [f EXCEPT !.pc = "exChk", !.tgt = "scr", !.term = TRUE, !.ev = f.call.ev,
                               !.lvl = IF f.call.ev # 0 THEN LevelFatal ELSE LevelInfo,
                               !.stTxt = StackText, !.sThr = screenThreshold, !.lThr = logThreshold])
  /\ UNCHANGED <<mW, mR, screenThreshold, logThreshold, screenNewline, logfileNewline, nlVer,
                 stackTraceConfig, errorExitVal, logFileName, deferFunc, chan, chanHist, env, sink, prog,
                 ncall, done, exited, exitCode, exitCall>>

\* exit(): stackTraceWanted(true, v, tgt) && level >= threshold && level != LevelDiscard;
\* if so doPrefixing of the trace for that target, else the next target
ExitCheck(p) ==
  /\ At(p, "exChk") /\ MFree
  /\ LET f == Top(p)
         want == /\ StackTraceWanted(stackTraceConfig, env.st, f.lvl, TRUE, f.ev, TgtBit(f.tgt))
                 /\ f.lvl >= ThrOf(f, f.tgt) /\ f.lvl # LevelDiscard
     IN stk' = SetTop(p, IF want THEN [f EXCEPT !.pc = "pNL", !.phase = "exit"]
                         ELSE IF f.tgt = "scr" THEN [f EXCEPT !.tgt = "log"]
                         ELSE [f EXCEPT !.pc = "exFinal"])
  /\ UNCHANGED <<mW, mR, screenThreshold, logThreshold, screenNewline, logfileNewline, nlVer,
                 stackTraceConfig, errorExitVal, logFileName, deferFunc, chan, chanHist, env, sink, prog,
                 ncall, done, exited, exitCode, exitCall>>

\* exit(): mutex.Lock; o.screenHndl.Write(msg); mutex.Unlock (an error keeps the
\* lock into the error path); the logfile write takes no lock and ignores errors;
\* the newline flags are left alone
ExitWrite(p) ==
  /\ At(p, "exW") /\ (Top(p).tgt = "scr" => MFree)
  /\ LET f == Top(p)
         h == IF f.tgt = "scr" THEN chan[f.lvl].screenHndl ELSE chan[f.lvl].logfileHndl
         nonEmpty == f.pst # <<>>
         fail == nonEmpty /\ h = "bad" /\ f.tgt = "scr"
     IN /\ stk' = SetTop(p, [f EXCEPT !.hndl = h, !.phase = "msg",
                               !.wt = IF nonEmpty THEN @ \cup {f.tgt} ELSE @,
                               !.failed = @ \/ fail,
                               !.pc = IF fail THEN "exErr" ELSE IF f.tgt = "scr" THEN "exChk" ELSE "exFinal",
                               !.tgt = IF ~fail /\ f.tgt = "scr" THEN "log" ELSE f.tgt])
        /\ sink' = IF nonEmpty THEN Wrote(h, p, f.pst) ELSE sink
        /\ mW' = IF fail THEN p ELSE mW
  /\ UNCHANGED <<mR, screenThreshold, logThreshold, screenNewline, logfileNewline, nlVer,
                 stackTraceConfig, errorExitVal, logFileName, deferFunc, chan, chanHist, env, prog,
                 ncall, done, exited, exitCode, exitCall>>

\* exit()'s screen error path: the message to os.Stderr, then mutex.Unlock
ExitErr(p) ==
  /\ At(p, "exErr") /\ mW = p
  /\ mW' = 0
  /\ stk' = SetTop(p, [Top(p) EXCEPT !.pc = "exErrHook"])
  /\ sink' = Wrote("stderr", p, <<"<write error>">>)
  /\ UNCHANGED <<mR, screenThreshold, logThreshold, screenNewline, logfileNewline, nlVer,
                 stackTraceConfig, errorExitVal, logFileName, deferFunc, chan, chanHist, env, prog,
                 ncall, done, exited, exitCode, exitCall>>

\* a version that hands the final hook the error exit value too
ExitHookArgAlwaysError(f) == errorExitVal

\* the value exit() calls deferFunc with: errorExitVal on the screen error path, exitVal at the end
ExitHookArg(f) == IF f.pc = "exErrHook" THEN errorExitVal ELSE f.ev

\* mutex.RLock; deferFunc(errorExitVal) (pc "exErrHook") or deferFunc(exitVal)
\* (pc "exFinal"), still holding the RLock
ExitHook(p) ==
  /\ Running(p) /\ Top(p).pc \in {"exErrHook", "exFinal"} /\ RLockFree(p)
  /\ mR' = [mR EXCEPT ![p] = @ + 1]
  /\ LET f == Top(p)
         v == ExitHookArg(f)
         f2 == [f EXCEPT !.pc = IF f.pc = "exErrHook" THEN "exErrRet" ELSE "exFinRet",
                         !.hooks = IF deferFunc # "nil" THEN Append(@, v) ELSE @]
     IN stk' = IF deferFunc = "note"
               THEN PushOver(p, f2, [NewFrame(HookNoteCall, f.k, "wrap") EXCEPT !.proc = p])
               ELSE SetTop(p, f2)
  /\ UNCHANGED <<mW, screenThreshold, logThreshold, screenNewline, logfileNewline, nlVer,
                 stackTraceConfig, errorExitVal, logFileName, deferFunc, chan, chanHist, env, sink, prog,
                 ncall, done, exited, exitCode, exitCall>>

\* exit(): mutex.RUnlock after the hook
ExitHookReturn(p) ==
  /\ Running(p) /\ Top(p).pc \in {"exErrRet", "exFinRet"}
  /\ mR' = [mR EXCEPT ![p] = @ - 1]
  /\ stk' = SetTop(p, [Top(p) EXCEPT !.pc = IF Top(p).pc = "exErrRet" THEN "exErrExit" ELSE "exFinExit"])
  /\ UNCHANGED <<mW, screenThreshold, logThreshold, screenNewline, logfileNewline, nlVer,
                 stackTraceConfig, errorExitVal, logFileName, deferFunc, chan, chanHist, env, sink, prog,
                 ncall, done, exited, exitCode, exitCall>>

\* exit(): os.Exit(errorExitVal) / os.Exit(exitVal) unless PKG_OUT_NO_EXIT=1;
\* in test mode the error path re-takes mutex.Lock and goes on to the logfile
ExitExit(p) ==
  /\ Running(p) /\ Top(p).pc \in {"exErrExit", "exFinExit"}
  /\ LET f == Top(p)
         v == IF f.pc = "exErrExit" THEN errorExitVal ELSE f.ev
     IN IF ExitsProcess(env.noExit)
        THEN /\ exited' = TRUE /\ exitCode' = v /\ exitCall' = f
             /\ UNCHANGED stk
        ELSE /\ stk' = SetTop(p, [f EXCEPT !.pc = IF f.pc = "exErrExit" THEN "exRelock" ELSE "ret"])
             /\ UNCHANGED <<exited, exitCode, exitCall>>
  /\ UNCHANGED <<mW, mR, screenThreshold, logThreshold, screenNewline, logfileNewline, nlVer,
                 stackTraceConfig, errorExitVal, logFileName, deferFunc, chan, chanHist, env, sink, prog,
                 ncall, done>>

\* the error path's mutex.Lock() ... mutex.Unlock(), then the logfile check
ExitRelock(p) ==
  /\ At(p, "exRelock") /\ MFree
  /\ stk' = SetTop(p, [Top(p) EXCEPT !.pc = "exChk", !.tgt = "log"])
  /\ UNCHANGED <<mW, mR, screenThreshold, logThreshold, screenNewline, logfileNewline, nlVer,
                 stackTraceConfig, errorExitVal, logFileName, deferFunc, chan, chanHist, env, sink, prog,
                 ncall, done, exited, exitCode, exitCall>>

\* ------------------------------------------------ configuration calls
CfgUnchanged == UNCHANGED <<mR, screenNewline, logfileNewline, nlVer, errorExitVal, logFileName,
                            deferFunc, env, sink, prog, ncall, done, exited, exitCode, exitCall>>

\* Threshold(outputTgt): mutex.Lock (deferred Unlock); an invalid target calls
\* Fatalln while the lock is held
ThresholdLock(p) ==
  /\ At(p, "thLock") /\ MFree
  /\ mW' = p
  /\ LET f == Top(p)
         t == f.call.tgt
         valid == BitAnd(t, ForBoth) # 0
         f2 == [f EXCEPT !.pc = "thUnlock",
                  !.resN = IF BitAnd(t, ForScreen) # 0 THEN screenThreshold
                           ELSE IF BitAnd(t, ForLogfile) # 0 THEN logThreshold ELSE 0]
     IN stk' = IF valid THEN SetTop(p, f2)
               ELSE PushOver(p, f2, [NewFrame(FatallnCall(MsgThresholdTgt), f.k, "wrap") EXCEPT !.proc = p])
  /\ UNCHANGED <<screenThreshold, logThreshold, stackTraceConfig, chan, chanHist>>
  /\ CfgUnchanged

\* Threshold's deferred mutex.Unlock
ThresholdUnlock(p) ==
  /\ At(p, "thUnlock")
  /\ mW' = 0
  /\ stk' = SetTop(p, [Top(p) EXCEPT !.pc = "ret"])
  /\ UNCHANGED <<screenThreshold, logThreshold, stackTraceConfig, chan, chanHist>>
  /\ CfgUnchanged

\* SetThreshold(level, outputTgt): with the screen bit, levelCheck and set the
\* screen threshold under mutex.Lock; then the logfile
SetThreshold(p) ==
  /\ At(p, "run") /\ Top(p).fn = "SetThreshold"
  /\ LET c == Top(p).call
         scr == BitAnd(c.tgt, ForScreen) # 0
     IN /\ scr => MFree
        /\ screenThreshold' = IF scr THEN LevelCheck(c.lvl) ELSE screenThreshold
  /\ stk' = SetTop(p, [Top(p) EXCEPT !.pc = "stLog"])
  /\ UNCHANGED <<mW, logThreshold, stackTraceConfig, chan, chanHist>>
  /\ CfgUnchanged

\* SetThreshold: with the logfile bit, levelCheck and set the logfile threshold
\* in a second mutex.Lock section
SetThresholdLog(p) ==
  /\ At(p, "stLog")
  /\ LET c == Top(p).call
         log == BitAnd(c.tgt, ForLogfile) # 0
     IN /\ log => MFree
        /\ logThreshold' = IF log THEN LevelCheck(c.lvl) ELSE logThreshold
  /\ stk' = SetTop(p, [Top(p) EXCEPT !.pc = "ret"])
  /\ UNCHANGED <<mW, screenThreshold, stackTraceConfig, chan, chanHist>>
  /\ CfgUnchanged

\* SetStackTraceConfig(cfg)
SetStackTraceConfig(p) ==
  /\ At(p, "run") /\ Top(p).fn = "SetStackTraceConfig" /\ MFree
  /\ stackTraceConfig' = Top(p).call.arg
  /\ stk' = SetTop(p, [Top(p) EXCEPT !.pc = "ret"])
  /\ UNCHANGED <<mW, screenThreshold, logThreshold, chan, chanHist>>
  /\ CfgUnchanged

\* the channels SetFlags / SetWriter update: the loop over outputters stops at
\* the first o.level == level unless level == LevelAll; no levelCheck
SelectedLevels(level) == IF level = LevelAll THEN Levels ELSE Levels \cap {level}

\* history of channel configurations (ghost)
RecordChan(nc) == IF nc = chan THEN chanHist ELSE Append(chanHist, nc)

\* SetFlags(level, flags, outputTgt)
SetFlags(p) ==
  /\ At(p, "run") /\ Top(p).fn = "SetFlags"
  /\ LET c == Top(p).call
         sel == SelectedLevels(c.lvl)
         nc == [l \in Levels |-> IF l \in sel
                  THEN [chan[l] EXCEPT
                          !.screenFlags = IF BitAnd(c.tgt, ForScreen) # 0 THEN c.arg ELSE @,
                          !.logFlags = IF BitAnd(c.tgt, ForLogfile) # 0 THEN c.arg ELSE @]
                  ELSE chan[l]]
     IN /\ chan' = nc
        /\ chanHist' = RecordChan(nc)
  /\ stk' = SetTop(p, [Top(p) EXCEPT !.pc = "ret"])
  /\ UNCHANGED <<mW, screenThreshold, logThreshold, stackTraceConfig>>
  /\ CfgUnchanged

\* SetWriter(level, w, outputTgt)
SetWriter(p) ==
  /\ At(p, "run") /\ Top(p).fn = "SetWriter"
  /\ LET c == Top(p).call
         sel == SelectedLevels(c.lvl)
         nc == [l \in Levels |-> IF l \in sel
                  THEN [chan[l] EXCEPT
                          !.screenHndl = IF BitAnd(c.tgt, ForScreen) # 0 THEN c.w ELSE @,
                          !.logfileHndl = IF BitAnd(c.tgt, ForLogfile) # 0 THEN c.w ELSE @]
                  ELSE chan[l]]
     IN /\ chan' = nc
        /\ chanHist' = RecordChan(nc)
  /\ stk' = SetTop(p, [Top(p) EXCEPT !.pc = "ret"])
  /\ UNCHANGED <<mW, screenThreshold, logThreshold, stackTraceConfig>>
  /\ CfgUnchanged

\* SetPrefix(level, prefix): levelCheck; nothing for LevelDiscard
SetPrefix(p) ==
  /\ At(p, "run") /\ Top(p).fn = "SetPrefix"
  /\ LET c == Top(p).call
         l == LevelCheck(c.lvl)
         nc == IF l = LevelDiscard THEN chan ELSE [chan EXCEPT ![l].prefix = c.msg]
     IN /\ chan' = nc
        /\ chanHist' = RecordChan(nc)
  /\ stk' = SetTop(p, [Top(p) EXCEPT !.pc = "ret"])
  /\ UNCHANGED <<mW, screenThreshold, logThreshold, stackTraceConfig>>
  /\ CfgUnchanged

\* Flags(level, outputTgt): levelCheck; neither target bit -> Fatalln
Flags(p) ==
  /\ At(p, "run") /\ Top(p).fn = "Flags"
  /\ LET f == Top(p)
         c == f.call
         l == LevelCheck(c.lvl)
         found == l \in Levels
         bad == found /\ BitAnd(c.tgt, ForBoth) = 0
         f2 == [f EXCEPT !.pc = "ret",
                  !.resN = IF ~found \/ bad THEN 0
                           ELSE IF BitAnd(c.tgt, ForScreen) # 0 THEN chan[l].screenFlags
                           ELSE chan[l].logFlags]
     IN stk' = IF bad THEN PushOver(p, f2, [NewFrame(FatallnCall(MsgFlagsTgt), f.k, "wrap") EXCEPT !.proc = p])
               ELSE SetTop(p, f2)
  /\ UNCHANGED <<mW, screenThreshold, logThreshold, stackTraceConfig, chan, chanHist>>
  /\ CfgUnchanged

\* Writer(level, outputTgt): levelCheck; logfile selection overrides screen
Writer(p) ==
  /\ At(p, "run") /\ Top(p).fn = "Writer"
  /\ LET f == Top(p)
         c == f.call
         l == LevelCheck(c.lvl)
     IN stk' = SetTop(p, [f EXCEPT !.pc = "ret",
                  !.resW = IF l \notin Levels THEN "discard"
                           ELSE IF BitAnd(c.tgt, ForLogfile) # 0 THEN chan[l].logfileHndl
                           ELSE IF BitAnd(c.tgt, ForScreen) # 0 THEN chan[l].screenHndl
                           ELSE "discard"])
  /\ UNCHANGED <<mW, screenThreshold, logThreshold, stackTraceConfig, chan, chanHist>>
  /\ CfgUnchanged

\* Prefix(level): levelCheck; LevelDiscard -> Fatalln, then "" is returned
Prefix(p) ==
  /\ At(p, "run") /\ Top(p).fn = "Prefix"
  /\ LET f == Top(p)
         l == LevelCheck(f.call.lvl)
         f2 == [f EXCEPT !.pc = "ret", !.resS = IF l \in Levels THEN chan[l].prefix ELSE <<>>]
     IN stk' = IF l = LevelDiscard
               THEN PushOver(p, f2, [NewFrame(FatallnCall(MsgPrefixDiscard), f.k, "wrap") EXCEPT !.proc = p])
               ELSE SetTop(p, f2)
  /\ UNCHANGED <<mW, screenThreshold, logThreshold, stackTraceConfig, chan, chanHist>>
  /\ CfgUnchanged

\* InsertPrefix(s, prefix, ctrl, errCode) called by a client
InsertPrefixCall(p) ==
  /\ At(p, "run") /\ Top(p).fn = "InsertPrefix"
  /\ LET c == Top(p).call IN
       stk' = SetTop(p, [Top(p) EXCEPT !.pc = "ret", !.resS = InsertPrefix(c.msg, c.pfx, c.arg, c.code)])
  /\ UNCHANGED <<mW, screenThreshold, logThreshold, stackTraceConfig, chan, chanHist>>
  /\ CfgUnchanged

\* o.stackTraceWanted(terminal, exitVal, outputTgt) on the channel of level lvl
\* (mutex.Lock held throughout)
StackTraceWantedCall(p) ==
  /\ At(p, "run") /\ Top(p).fn = "stackTraceWanted" /\ MFree
  /\ LET c == Top(p).call IN
       stk' = SetTop(p, [Top(p) EXCEPT !.pc = "ret",
                !.resB = StackTraceWanted(stackTraceConfig, env.st, c.lvl, c.term, c.ev, c.tgt)])
  /\ UNCHANGED <<mW, screenThreshold, logThreshold, stackTraceConfig, chan, chanHist>>
  /\ CfgUnchanged

\* ---------------------------------------- more configuration calls
\* SetDeferFunc(dFunc): mutex.Lock; deferFunc = dFunc (c.w names the function)
SetDeferFunc(p) ==
  /\ At(p, "run") /\ Top(p).fn = "SetDeferFunc" /\ MFree
  /\ deferFunc' = Top(p).call.w
  /\ stk' = SetTop(p, [Top(p) EXCEPT !.pc = "ret"])
  /\ UNCHANGED <<mW, mR, screenThreshold, logThreshold, screenNewline, logfileNewline, nlVer,
                 stackTraceConfig, errorExitVal, logFileName, chan, chanHist, env, sink, prog,
                 ncall, done, exited, exitCode, exitCall>>

\* SetErrorExitVal(val): atomic.StoreInt32(&errorExitVal, val), no lock
SetErrorExitVal(p) ==
  /\ At(p, "run") /\ Top(p).fn = "SetErrorExitVal"
  /\ errorExitVal' = Top(p).call.arg
  /\ stk' = SetTop(p, [Top(p) EXCEPT !.pc = "ret"])
  /\ UNCHANGED <<mW, mR, screenThreshold, logThreshold, screenNewline, logfileNewline, nlVer,
                 stackTraceConfig, logFileName, deferFunc, chan, chanHist, env, sink, prog,
                 ncall, done, exited, exitCode, exitCall>>

\* ResetNewline(val, outputTgt): mutex.Lock; set the selected newline flags to val
ResetNewline(p) ==
  /\ At(p, "run") /\ Top(p).fn = "ResetNewline" /\ MFree
  /\ LET c == Top(p).call
         scr == BitAnd(c.tgt, ForScreen) # 0
         log == BitAnd(c.tgt, ForLogfile) # 0
     IN /\ screenNewline' = IF scr THEN c.term ELSE screenNewline
        /\ logfileNewline' = IF log THEN c.term ELSE logfileNewline
        /\ nlVer' = [t \in {"scr", "log"} |-> IF (t = "scr" /\ scr) \/ (t = "log" /\ log) THEN nlVer[t] + 1 ELSE nlVer[t]]
  /\ stk' = SetTop(p, [Top(p) EXCEPT !.pc = "ret"])
  /\ UNCHANGED <<mW, mR, screenThreshold, logThreshold, stackTraceConfig, errorExitVal,
                 logFileName, deferFunc, chan, chanHist, env, sink, prog, ncall, done, exited,
                 exitCode, exitCall>>

\* SetLogFile(path) / UseTempLogFile(prefix): os.OpenFile / ioutil.TempFile may
\* fail, and then Fatalln; in test mode Fatalln returns and file.Name() on the
\* nil *os.File panics
LogFileOpen(p) ==
  /\ At(p, "run") /\ Top(p).fn \in {"SetLogFile", "UseTempLogFile"}
  /\ LET f == Top(p) IN
       \E ok \in BOOLEAN :
         stk' = IF ok THEN SetTop(p, [f EXCEPT !.pc = "lfName"])
                ELSE PushOver(p, [f EXCEPT !.pc = "lfPanic"],
                              [NewFrame(FatallnCall(IF f.fn = "SetLogFile" THEN MsgLogOpen ELSE MsgTempOpen),
                                        f.k, "wrap") EXCEPT !.proc = p])
  /\ UNCHANGED <<mW, mR, screenThreshold, logThreshold, screenNewline, logfileNewline, nlVer,
                 stackTraceConfig, errorExitVal, logFileName, deferFunc, chan, chanHist, env,
                 sink, prog, ncall, done, exited, exitCode, exitCall>>

\* mutex.Lock; logFileName = file.Name(); mutex.Unlock
LogFileName(p) ==
  /\ At(p, "lfName") /\ MFree
  /\ logFileName' = IF Top(p).fn = "SetLogFile" THEN "out.log" ELSE "tmp"
  /\ stk' = SetTop(p, [Top(p) EXCEPT !.pc = "lfHndl"])
  /\ UNCHANGED <<mW, mR, screenThreshold, logThreshold, screenNewline, logfileNewline, nlVer,
                 stackTraceConfig, errorExitVal, deferFunc, chan, chanHist, env, sink, prog,
                 ncall, done, exited, exitCode, exitCall>>

\* for every outputter: o.logfileHndl = file (under its o.mu)
LogFileHandles(p) ==
  /\ At(p, "lfHndl")
  /\ LET nc == [l \in Levels |-> [chan[l] EXCEPT !.logfileHndl = "file"]] IN
       /\ chan' = nc
       /\ chanHist' = RecordChan(nc)
  /\ stk' = SetTop(p, [Top(p) EXCEPT !.pc = "ret"])
  /\ UNCHANGED <<mW, mR, screenThreshold, logThreshold, screenNewline, logfileNewline, nlVer,
                 stackTraceConfig, errorExitVal, logFileName, deferFunc, env, sink, prog,
                 ncall, done, exited, exitCode, exitCall>>

\* file.Name() on a nil *os.File: nil pointer dereference, exit status 2
LogFilePanic(p) ==
  /\ At(p, "lfPanic")
  /\ exited' = TRUE /\ exitCode' = 2 /\ exitCall' = Top(p)
  /\ sink' = Wrote("stderr", p, MsgNilPanic)
  /\ UNCHANGED <<mW, mR, screenThreshold, logThreshold, screenNewline, logfileNewline, nlVer,
                 stackTraceConfig, errorExitVal, logFileName, deferFunc, chan, chanHist, env,
                 prog, ncall, stk, done>>

\* ------------------------------------------------- blocking and deadlock
\* the frame's next step starts with mutex.Lock
LockPc(f) ==
  \/ f.pc \in {"wrap", "thr", "pNL", "wW", "wNL", "wST", "wST2", "oErr", "exit", "exChk",
               "exRelock", "thLock", "lfName"}
  \/ f.pc \in {"stc", "stc2"} /\ f.lvl >= LevelIssue
  \/ f.pc = "exW" /\ f.tgt = "scr"
  \/ f.pc = "run" /\ f.fn \in {"SetStackTraceConfig", "stackTraceWanted", "SetDeferFunc", "ResetNewline"}
  \/ f.pc = "run" /\ f.fn = "SetThreshold" /\ BitAnd(f.call.tgt, ForScreen) # 0
  \/ f.pc = "stLog" /\ BitAnd(f.call.tgt, ForLogfile) # 0

\* p calls mutex.Lock while the lock is taken and blocks as a pending writer
LockWait(p) ==
  /\ Running(p) /\ LockPc(Top(p)) /\ ~MFree /\ ~Top(p).wl
  /\ stk' = [stk EXCEPT ![p] = [@ EXCEPT ![Len(@)] = [Top(p) EXCEPT !.wl = TRUE]]]
  /\ UNCHANGED <<mW, mR, screenThreshold, logThreshold, screenNewline, logfileNewline, nlVer,
                 stackTraceConfig, errorExitVal, logFileName, deferFunc, chan, chanHist, env,
                 sink, prog, ncall, done, exited, exitCode, exitCall>>

\* ------------------------------------------------------------- inputs
CNoteln == Emit("Noteln", LevelNote, TRUE, FALSE, FALSE, 0, MsgHi)
CNote == Emit("Note", LevelNote, FALSE, FALSE, FALSE, 0, MsgHi)
CPrintEmpty == Emit("Print", LevelInfo, FALSE, FALSE, FALSE, 0, <<>>)
CDebugln == Emit("Debugln", LevelDebug, TRUE, FALSE, FALSE, 0, MsgHi)
CTraceln == [Emit("Traceln", LevelTrace, TRUE, FALSE, FALSE, 0, MsgHi) EXCEPT !.site = PkgSite]
CIssue == Emit("Issue", LevelIssue, FALSE, FALSE, FALSE, 0, MsgBoom)
CIssueExit == Emit("IssueExit", LevelIssue, FALSE, TRUE, FALSE, 2, MsgBoom)
CErrorExitln == Emit("ErrorExitln", LevelError, TRUE, TRUE, FALSE, 0, MsgBoom)
CFatal == Emit("Fatal", LevelFatal, FALSE, TRUE, TRUE, 0, MsgBoom)
CThreshold(t) == Call("Threshold", "Threshold", 0, FALSE, FALSE, FALSE, 0, <<>>, t, 0)
CSetThreshold(l, t) == Call("SetThreshold", "SetThreshold", l, FALSE, FALSE, FALSE, 0, <<>>, t, 0)
CSetStackTraceConfig(cfg) == Call("SetStackTraceConfig", "SetStackTraceConfig", 0, FALSE, FALSE, FALSE, 0, <<>>, 0, cfg)
CSetFlags(l, fl, t) == Call("SetFlags", "SetFlags", l, FALSE, FALSE, FALSE, 0, <<>>, t, fl)
CSetWriter(l, w, t) == [Call("SetWriter", "SetWriter", l, FALSE, FALSE, FALSE, 0, <<>>, t, 0) EXCEPT !.w = w]
CSetPrefix(l, pfx) == Call("SetPrefix", "SetPrefix", l, FALSE, FALSE, FALSE, 0, pfx, 0, 0)
CFlags(l, t) == Call("Flags", "Flags", l, FALSE, FALSE, FALSE, 0, <<>>, t, 0)
CWriter(l, t) == Call("Writer", "Writer", l, FALSE, FALSE, FALSE, 0, <<>>, t, 0)
CInsertPrefix(str, pfx, ctrl, code) ==
  [Call("InsertPrefix", "InsertPrefix", 0, FALSE, FALSE, FALSE, 0, str, 0, ctrl) EXCEPT !.pfx = pfx, !.code = code]
CStackTraceWanted(l, term, ev, t) == Call("stackTraceWanted", "stackTraceWanted", l, FALSE, term, FALSE, ev, <<>>, t, 0)
\* Issue(e), Issueln(e), Issuef("%v", e) with e a DetailedError whose Error() is
\* "boom" (its Code() is the no-code sentinel and it carries no stack of its own)
CIssueDet == [CIssue EXCEPT !.det = TRUE]
CIssuelnDet == [Emit("Issueln", LevelIssue, TRUE, FALSE, FALSE, 0, MsgBoom) EXCEPT !.det = TRUE]
CIssuefDet == [Emit("Issuef", LevelIssue, FALSE, FALSE, FALSE, 0, MsgBoom) EXCEPT !.det = TRUE, !.form = "f"]
CExit(v) == Call("Exit", "Exit", 0, FALSE, TRUE, FALSE, v, <<>>, 0, 0)
CPrefix(l) == Call("Prefix", "Prefix", l, FALSE, FALSE, FALSE, 0, <<>>, 0, 0)
CSetDeferFunc(fv) == [Call("SetDeferFunc", "SetDeferFunc", 0, FALSE, FALSE, FALSE, 0, <<>>, 0, 0) EXCEPT !.w = fv]
CSetErrorExitVal(v) == Call("SetErrorExitVal", "SetErrorExitVal", 0, FALSE, FALSE, FALSE, 0, <<>>, 0, v)
CResetNewline(val, t) == Call("ResetNewline", "ResetNewline", 0, FALSE, val, FALSE, 0, <<>>, t, 0)
CSetLogFile == Call("SetLogFile", "SetLogFile", 0, FALSE, FALSE, FALSE, 0, <<>>, 0, 0)
CUseTempLogFile == Call("UseTempLogFile", "UseTempLogFile", 0, FALSE, FALSE, FALSE, 0, <<>>, 0, 0)
\* NOTE.Write([]byte("hi")): LvlOutput as an io.Writer
CWrite == Emit("Write", LevelNote, FALSE, FALSE, FALSE, 0, MsgHi)

SoloEmits == {CDebugln, CTraceln, CNoteln, CNote, CIssue, CIssueExit, CErrorExitln, CFatal, CExit(0), CExit(2)}
SoloCfgs == {CThreshold(ForScreen), CThreshold(0), CSetThreshold(LevelTrace - 1, ForLogfile),
             CSetStackTraceConfig(ForScreen + StackTraceErrorExit),
             CSetFlags(LevelTrace - 1, Ltime, ForScreen), CSetFlags(LevelAll, Ltime, ForScreen),
             CSetWriter(LevelAll, "bad", ForScreen), CSetWriter(LevelTrace - 1, "bad", ForScreen),
             CSetPrefix(LevelTrace - 1, PfxNote), CFlags(LevelNote, 0), CWriter(LevelNote, ForBoth),
             CPrefix(LevelDiscard), CSetStackTraceConfig(ForScreen + StackTraceAllIssues),
             CSetThreshold(LevelTrace - 1, ForBoth)}

\* the number of API calls a process makes, the last one an emission
MaxCalls == 2
SoloProgs == UNION {{pre \o <<e>> : pre \in [1..n -> SoloCfgs], e \in SoloEmits} : n \in 0..(MaxCalls - 1)}
             \cup {<<c>> : c \in SoloCfgs}

\* a SetThreshold followed by a Threshold query
ThresholdSets == {CSetThreshold(LevelTrace - 1, ForLogfile), CSetThreshold(LevelAll, ForScreen),
                  CSetThreshold(LevelNote, ForBoth), CSetThreshold(LevelTrace - 1, ForScreen)}
ThresholdProgs == {<<s, CThreshold(t)>> : s \in ThresholdSets, t \in {ForScreen, ForLogfile, ForBoth}}

ConcEmits == {CNoteln, CNote, CIssueExit, CFatal}
\* the remaining configuration calls, racing a Fatal
ConcGap == {CSetDeferFunc("note"), CSetErrorExitVal(5), CResetNewline(FALSE, ForBoth), CSetLogFile}
ConcOthers == {CSetWriter(LevelNote, "stderr", ForScreen), CSetPrefix(LevelNote, PfxIssue),
               CSetFlags(LevelNote, Ltime, ForScreen), CThreshold(ForScreen), CThreshold(0),
               CSetThreshold(LevelTrace - 1, ForBoth), CSetStackTraceConfig(ForBoth + StackTraceAllIssues),
               CFlags(LevelNote, 0), CWriter(LevelNote, ForScreen), CPrefix(LevelDiscard),
               CSetWriter(LevelAll, "bad", ForScreen)}

\* Exit(2) with stack traces for all issues, with and without a failing screen writer
ExitTrace == <<CSetStackTraceConfig(ForBoth + StackTraceAllIssues), CExit(2)>>
ExitBadScreen == <<CSetWriter(LevelAll, "bad", ForScreen), CSetStackTraceConfig(ForBoth + StackTraceAllIssues), CExit(2)>>

ReconfigureNote == <<CSetPrefix(LevelNote, PfxIssue), CSetWriter(LevelNote, "stderr", ForScreen)>>

\* logfile output switched on, then every screen writer replaced by a failing one
BadScreenLogOn == <<CSetThreshold(LevelTrace - 1, ForLogfile), CSetWriter(LevelAll, "bad", ForScreen)>>

\* a Noteln with logfile output on, without and with time metadata on both targets
FormatterProgs == {<<CSetThreshold(LevelTrace - 1, ForLogfile), CNoteln>>,
                   <<CSetThreshold(LevelTrace - 1, ForLogfile), CSetFlags(LevelAll, Ltime, ForBoth), CNoteln>>}

\* the formatters a client may register
Formatters == {NoFormatter} \cup [set : {TRUE}, apply : {ForScreen, ForLogfile, ForBoth}, noOut : {0, ForScreen, ForLogfile, ForBoth},
                            skip : BOOLEAN]

\* Print(""), alone and with logfile output on
EmptyProgs == {<<CPrintEmpty>>, <<CSetThreshold(LevelTrace - 1, ForLogfile), CPrintEmpty>>}

\* one emission of each form carrying a DetailedError
DetProgs == {<<CIssueDet>>, <<CIssuelnDet>>, <<CIssuefDet>>}

\* the remaining configuration calls and LvlOutput.Write
GapProgs == {<<CSetDeferFunc("plain"), CFatal>>, <<CSetErrorExitVal(5), CFatal>>,
             <<CResetNewline(FALSE, ForBoth), CNoteln>>,
             <<CSetLogFile, CSetThreshold(LevelTrace - 1, ForLogfile), CNoteln>>, <<CUseTempLogFile>>,
             <<CWrite>>, <<CSetWriter(LevelAll, "bad", ForScreen), CWrite>>}

\* PKG_OUT_DEBUG_SCOPE split on ","; <<>> = unset
Scopes == {<<>>, <<<<"p", ".">>>>, <<<<"x">>, <<"m">>>>}

StEnvs == {<<>>, <<TokFoo, TokBar>>, <<TokScreen, TokNonzeroerrorexit>>}

InitCommon ==
  /\ mW = 0 /\ mR = [q \in Procs |-> 0]
  /\ screenThreshold = LevelInfo /\ logThreshold = LevelDiscard
  /\ screenNewline = TRUE /\ logfileNewline = TRUE
  /\ logFileName = ""
  /\ nlVer = [t \in {"scr", "log"} |-> 0]
  /\ chan = [l \in Levels |-> InitChan(l)]
  /\ chanHist = <<[l \in Levels |-> InitChan(l)]>>
  /\ sink = [h \in Hndls |-> <<>>]
  /\ ncall = [q \in Procs |-> 0]
  /\ stk = [q \in Procs |-> <<>>]
  /\ done = <<>>
  /\ exited = FALSE /\ exitCode = 0 /\ exitCall = NewFrame(CNote, 0, "none")

\* one process running a short program, under every environment setting
SoloInit ==
  /\ InitCommon
  /\ stackTraceConfig = StackTraceExitToLogfile
  /\ errorExitVal \in {-1, 3}
  /\ deferFunc \in {"nil", "plain", "note"}
  /\ \/ \E pr \in SoloProgs \cup ThresholdProgs \cup EmptyProgs :
          /\ prog = [q \in Procs |-> IF q = 1 THEN pr ELSE <<>>]
          /\ env \in [st : StEnvs, noExit : BOOLEAN,
                      scope : IF \E i \in 1..Len(pr) : pr[i].name \in {"Traceln", "Debugln", "Noteln"}
                              THEN Scopes ELSE {<<>>},
                      fmtr : {NoFormatter}]
     \/ \E pr \in DetProgs \cup GapProgs :
          /\ prog = [q \in Procs |-> IF q = 1 THEN pr ELSE <<>>]
          /\ env \in [st : {<<>>}, noExit : BOOLEAN, scope : {<<>>}, fmtr : {NoFormatter}]
     \/ \E pr \in FormatterProgs :
          /\ prog = [q \in Procs |-> IF q = 1 THEN pr ELSE <<>>]
          /\ env \in [st : {<<>>}, noExit : BOOLEAN, scope : {<<>>}, fmtr : Formatters]

\* two processes calling concurrently
Init ==
  /\ InitCommon
  /\ stackTraceConfig = StackTraceExitToLogfile
  /\ errorExitVal = -1
  /\ deferFunc \in {"nil", "plain", "note"}
  /\ env \in [st : {<<>>}, noExit : BOOLEAN, scope : {<<>>}, fmtr : {NoFormatter}]
  /\ prog \in {[q \in Procs |-> IF q = 1 THEN <<a>> ELSE pb] :
                a \in ConcEmits, pb \in {<<b>> : b \in ConcEmits \cup ConcOthers} \cup {ReconfigureNote, BadScreenLogOn, ExitTrace, ExitBadScreen}}
     \cup {[q \in Procs |-> IF q = 1 THEN <<CFatal>> ELSE <<b>>] : b \in ConcGap}

\* inputs of the pure functions: texts over "a" and newline up to MaxLen long
MaxLen == 3
PureStrs == UNION {[1..n -> {"a", NL}] : n \in 0..MaxLen}
PurePfxs == {<<>>, PfxError, <<">">>, <<"a", ":", "b", ":">>}
PureModes == 0..15
PureCodes == {0, 42, DefaultErrCode, -1}
PureStEnvs == {<<>>, <<TokScreen>>, <<TokLogfile, TokAll>>, <<TokBoth, TokErrorexit>>, <<TokOff, TokScreen>>,
               <<TokScreen, TokOff>>, <<TokScreen, TokLogfile, TokAll>>, <<TokFoo, TokBar>>,
               <<<<"S", "C", "R", "E", "E", "N">>, TokAll>>, <<<<"B", "o", "t", "h">>, <<"A", "l", "l", "I", "s", "s", "u", "e", "s">>>>}
InsertPrefixCalls == {CInsertPrefix(x, y, m, e) : x \in PureStrs, y \in PurePfxs, m \in PureModes, e \in PureCodes}
StackTraceWantedCalls == {CStackTraceWanted(l, t, e, g) :
                            l \in {LevelNote, LevelIssue, LevelFatal}, t \in BOOLEAN, e \in {0, 2},
                            g \in {ForScreen, ForLogfile}}

\* one call of a pure function, from any stack-trace configuration
PureInit ==
  /\ InitCommon
  /\ errorExitVal = -1 /\ deferFunc = "nil"
  /\ \/ /\ stackTraceConfig = StackTraceExitToLogfile
        /\ env = [st |-> <<>>, noExit |-> TRUE, scope |-> <<>>, fmtr |-> NoFormatter]
        /\ prog \in {[q \in Procs |-> IF q = 1 THEN <<c>> ELSE <<>>] : c \in InsertPrefixCalls}
     \/ /\ stackTraceConfig \in 0..31
        /\ env \in [st : PureStEnvs, noExit : {TRUE}, scope : {<<>>}, fmtr : {NoFormatter}]
        /\ prog \in {[q \in Procs |-> IF q = 1 THEN <<c>> ELSE <<>>] : c \in StackTraceWantedCalls}

PureStep(p) == StartCall(p) \/ InsertPrefixCall(p) \/ StackTraceWantedCall(p) \/ Return(p)

PureNext == \E p \in Procs : PureStep(p)

PureSpec == PureInit /\ [][PureNext]_vars

\* one step of process p
Step(p) ==
    \/ StartCall(p)
    \/ EmitWrap(p) \/ EmitThresholds(p) \/ EmitStackCfg(p) \/ EmitStackLog(p) \/ EmitTargetCheck(p)
    \/ PfxNewline(p) \/ PfxPrefix(p) \/ PfxFlags(p)
    \/ WriteHandles(p) \/ WriteMsg(p) \/ WriteNewline(p) \/ WriteStack(p) \/ WriteStackWrite(p)
    \/ OutputErr(p) \/ DyingHook(p) \/ HookReturn(p) \/ HookExit(p) \/ Return(p)
    \/ ThresholdLock(p) \/ ThresholdUnlock(p) \/ SetThreshold(p) \/ SetThresholdLog(p) \/ SetStackTraceConfig(p)
    \/ SetFlags(p) \/ SetWriter(p) \/ SetPrefix(p) \/ Flags(p) \/ Writer(p) \/ Prefix(p)
    \/ ExitStart(p) \/ ExitCheck(p) \/ ExitWrite(p) \/ ExitErr(p) \/ ExitHook(p)
    \/ ExitHookReturn(p) \/ ExitExit(p) \/ ExitRelock(p)
    \/ SetDeferFunc(p) \/ SetErrorExitVal(p) \/ ResetNewline(p)
    \/ LogFileOpen(p) \/ LogFileName(p) \/ LogFileHandles(p) \/ LogFilePanic(p)
    \/ LockWait(p)

\* p waits in mutex.Lock as a pending writer, or in mutex.RLock behind a writer
Blocked(p) ==
  LET f == Top(p) IN
    \/ LockPc(f) /\ f.wl /\ ~MFree
    \/ /\ \/ f.pc \in {"exErrHook", "exFinal", "oHook"}
          \/ f.pc = "dying" /\ f.term
       /\ ~RLockFree(p)

\* the client's main goroutine waits for the others: when every goroutine is
\* blocked the Go runtime aborts the process with exit status 2
DeadlockExit ==
  /\ ~exited /\ \E p \in Procs : stk[p] # <<>>
  /\ \A p \in Procs : IF stk[p] = <<>> THEN ncall[p] >= Len(prog[p]) ELSE Blocked(p)
  /\ exited' = TRUE /\ exitCode' = 2
  /\ exitCall' = Top(CHOOSE p \in Procs : stk[p] # <<>>)
  /\ sink' = [sink EXCEPT !["stderr"] = Append(@, [p |-> 0, k |-> 0, b |-> MsgDeadlock])]
  /\ UNCHANGED <<mW, mR, screenThreshold, logThreshold, screenNewline, logfileNewline, nlVer,
                 stackTraceConfig, errorExitVal, logFileName, deferFunc, chan, chanHist, env,
                 prog, ncall, stk, done>>

Next == (\E p \in Procs : Step(p)) \/ DeadlockExit

Spec == Init /\ [][Next]_vars
SoloSpec == SoloInit /\ [][Next]_vars

\* the solo programs without a malformed stack-trace override or a debug scope
LiveInit == SoloInit /\ env.st # <<TokFoo, TokBar>> /\ env.scope = <<>>

\* the goroutine is not starved: it keeps running while it can take a step
\* (under SoloInit process 1 is the only one with calls), and the runtime
\* detects a deadlock of all goroutines
LiveSpec == LiveInit /\ [][Next]_vars /\ WF_vars(Step(1)) /\ WF_vars(DeadlockExit)

\* ============================================================ properties
\* bytes written to handle h by call k of process p
RECURSIVE BytesOf(_, _, _)
BytesOf(w, p, k) ==
  IF w = <<>> THEN <<>>
  ELSE (IF w[1].p = p /\ w[1].k = k THEN w[1].b ELSE <<>>) \o BytesOf(Tail(w), p, k)
CallBytes(h, p, k) == BytesOf(sink[h], p, k)

AndExitNames == {"IssueExit", "IssueExitln", "IssueExitf", "ErrorExit", "ErrorExitln", "ErrorExitf"}
HooksFor(v) == IF deferFunc # "nil" THEN <<v>> ELSE <<>>

\* C1: an "and exit" emission with explicit exit code c whose writes all succeed
\* calls the deferred hook with c and, outside test mode, exits with c.
C1_ExplicitExitCode ==
  /\ \A i \in 1..Len(done) :
       (done[i].call.name \in AndExitNames /\ ~done[i].failed) => done[i].hooks = HooksFor(done[i].call.ev)
  /\ (exited /\ exitCall.call.name \in AndExitNames /\ ~exitCall.failed)
       => exitCode = exitCall.call.ev /\ exitCall.hooks = HooksFor(exitCall.call.ev)

\* C2 (as stated): a non-terminal emission whose sink write fails neither
\* terminates the process nor invokes the deferred hook.
C2_NonTerminalFailNoExit ==
  /\ \A i \in 1..Len(done) :
       (done[i].fn = "Emit" /\ ~done[i].term /\ done[i].failed) => done[i].hooks = <<>>
  /\ ~(exited /\ exitCall.fn = "Emit" /\ ~exitCall.term /\ exitCall.failed)

\* C3: Fatal("boom") with error exit value 3, test mode on and the default
\* screen configuration: the hook (if registered) gets 3 exactly once, the screen
\* sink receives exactly "Fatal: boom\n", and the process does not terminate.
C3_FatalBoomScenario ==
  /\ \A i \in 1..Len(done) :
       (done[i].call = CFatal /\ done[i].dflt /\ env.noExit /\ errorExitVal = 3) =>
         /\ done[i].hooks = HooksFor(3)
         /\ CallBytes("stderr", done[i].proc, done[i].k) = PfxFatal \o MsgBoom \o <<NL>>
  /\ ~(exited /\ exitCall.call = CFatal /\ exitCall.dflt /\ env.noExit)

C3_Witness ==
  \E i \in 1..Len(done) :
    done[i].call = CFatal /\ done[i].dflt /\ env.noExit /\ errorExitVal = 3 /\ deferFunc = "plain"

\* frame of process p between its newline-flag read and its flag update
BetweenReadAndUpdate(p) ==
  /\ Running(p) /\ Top(p).fn = "Emit"
  /\ \/ Top(p).pc \in {"pP", "pF", "wo1", "wW", "wNL"}
     \/ Top(p).pc = "pNL" /\ Top(p).phase = "stack"

\* C4: the newline flag read, the composition, the write and the flag update of
\* an emission form one atomic unit: no other update of that target's flag
\* happens between an emission's read of the flag and its own update.
C4_AtomicContinuation ==
  \A p \in Procs : BetweenReadAndUpdate(p) => Top(p).rdVer = nlVer[Top(p).tgt]

\* C5: on each sink, the writes of one emission are back to back: no write of
\* another emission lies between two writes of the same emission.
C5_BackToBack ==
  \A h \in Hndls : \A i, j, k \in 1..Len(sink[h]) :
    (i < j /\ j < k /\ sink[h][i].p = sink[h][k].p /\ sink[h][i].k = sink[h][k].k)
      => sink[h][j].p = sink[h][i].p /\ sink[h][j].k = sink[h][i].k

\* the prefix, flags and handle a channel configuration gives target t
Pieces(c, t) ==
  [pfx |-> c.prefix,
   flags |-> IF t = "scr" THEN c.screenFlags ELSE c.logFlags,
   hndl |-> IF t = "scr" THEN c.screenHndl ELSE c.logfileHndl]

\* C6: when an emission writes its message, the prefix, flags and handle it used
\* all come from one configuration the channel actually had.
C6_ConsistentSnapshot ==
  \A p \in Procs :
    (Running(p) /\ Top(p).fn = "Emit" /\ Top(p).pc = "wW") =>
      \E i \in 1..Len(chanHist) :
        [pfx |-> Top(p).upfx, flags |-> Top(p).uflags, hndl |-> Top(p).hndl]
          = Pieces(chanHist[i][Top(p).lvl], Top(p).tgt)

\* an emission frame past its stack-trace decision, under a two-token override
\* none of whose tokens is in the vocabulary
MalformedOverrideDecided(p) ==
  /\ Running(p) /\ Top(p).fn = "Emit"
  /\ Top(p).pc \notin {"wrap", "thr", "stc"}
  /\ Top(p).lvl >= LevelIssue
  /\ env.st = <<TokFoo, TokBar>>

\* C7 (as stated): such an override is ignored; the decision is the one the
\* programmatic configuration gives.
C7_MalformedOverrideIgnored ==
  \A p \in Procs : MalformedOverrideDecided(p) =>
    LET f == Top(p) IN
      /\ f.scrST = StackTraceWanted(stackTraceConfig, <<>>, f.lvl, f.term, f.ev, ForScreen)
      /\ f.logST = StackTraceWanted(stackTraceConfig, <<>>, f.lvl, f.term, f.ev, ForLogfile)

\* C7 (amended): such an override replaces the programmatic configuration by the
\* empty one, so no target wants a stack trace.
C7_MalformedOverrideDisables ==
  \A p \in Procs : MalformedOverrideDecided(p) => ~Top(p).scrST /\ ~Top(p).logST

C7_Witness ==
  \E p \in Procs : MalformedOverrideDecided(p) /\ Top(p).term
    /\ StackTraceWanted(stackTraceConfig, <<>>, Top(p).lvl, Top(p).term, Top(p).ev, ForLogfile)

\* a Threshold call with neither target bit is in progress
InvalidThresholdPending == \E p \in Procs : Running(p) /\ stk[p][1].call = CThreshold(0)

\* the process was aborted by the runtime because every goroutine was blocked
Deadlocked == exited /\ \E i \in 1..Len(sink["stderr"]) : sink["stderr"][i].b = MsgDeadlock

\* C8: Threshold with an invalid target reaches the fatal path and completes:
\* the process exits through it, or (test mode) the call returns; it is not
\* left blocked (and aborted by the runtime as a deadlock).
C8_InvalidTargetCompletes == InvalidThresholdPending ~> (~Deadlocked /\ (exited \/ ~InvalidThresholdPending))

\* a deferred hook fired by a terminal emission is running
HookRunning == \E p \in Procs : Running(p) /\ \E i \in 1..(Len(stk[p]) - 1) : stk[p][i].pc = "hookRet"

\* C9: a hook that prints a note through the package runs to completion and the
\* process then terminates (or returns, in test mode), without a deadlock.
C9_HookNoteCompletes == HookRunning ~> (~HookRunning /\ ~Deadlocked /\ (exited \/ env.noExit))

\* C10: setters and queries taking a level clamp it; SetFlags / SetWriter with a
\* level below Trace set the Trace channel.
C10_LevelClamped ==
  \A i \in 1..Len(done) :
    LET c == done[i].call IN
      /\ (c.fn = "SetFlags" /\ c.lvl < LevelTrace /\ BitAnd(c.tgt, ForScreen) # 0)
           => chan[LevelTrace].screenFlags = c.arg
      /\ (c.fn = "SetWriter" /\ c.lvl < LevelTrace /\ BitAnd(c.tgt, ForScreen) # 0)
           => chan[LevelTrace].screenHndl = c.w

\* emission calls that have finished: returned, or ended the process in the hook
FinishedEmits ==
  {done[i] : i \in {j \in 1..Len(done) : done[j].fn = "Emit"}}
  \cup (IF exited /\ exitCall.fn = "Emit" /\ exitCall.pc = "hookExit" THEN {exitCall} ELSE {})

\* C11 (as stated): a finished emission at level L has written to target T if and
\* only if L >= threshold(T) and L # LevelDiscard.
C11_WritesExactlyWhenGated ==
  \A d \in FinishedEmits : \A t \in {"scr", "log"} :
    (t \in d.wt) <=> (d.lvl >= ThrOf(d, t) /\ d.lvl # LevelDiscard)

\* C11 (amended): an emission writes to target T only if L >= threshold(T) (the
\* threshold as the emission read it) and L # LevelDiscard; when that holds it
\* writes to T unless a write of the same emission to the screen failed first,
\* PKG_OUT_DEBUG_SCOPE suppresses it (Trace/Debug), or the registered formatter's
\* noOutputMask covers T.
C11_WritesOnlyWhenGated ==
  \A d \in FinishedEmits : \A t \in {"scr", "log"} :
    /\ (t \in d.wt) => (d.lvl >= ThrOf(d, t) /\ d.lvl # LevelDiscard)
    /\ (d.lvl >= ThrOf(d, t) /\ d.lvl # LevelDiscard /\ ~d.failed /\ t \notin d.supp /\ t \notin d.fno)
         => t \in d.wt

\* a gated target written next to a gated one the formatter or the scope filter skipped
C11_Witness ==
  \E d \in FinishedEmits : \E t \in {"scr", "log"} :
    /\ d.wt # {} /\ ~d.failed
    /\ d.lvl >= ThrOf(d, t) /\ d.lvl # LevelDiscard /\ t \in d.supp \cup d.fno

\* the thresholds a process starts with
InitialThreshold(t) == IF t = ForScreen THEN LevelInfo ELSE LevelDiscard

\* C12: SetThreshold(level, tgt) sets each selected target (and only those) to
\* the clamped level (below Trace -> Trace, at/above Discard -> Discard);
\* Threshold(t) then returns that value (the screen one when both bits are set).
C12_SetThresholdClamps ==
  \A i, j \in 1..Len(done) :
    (i < j /\ done[i].fn = "SetThreshold" /\ done[j].fn = "Threshold"
       /\ BitAnd(done[j].call.tgt, ForBoth) # 0) =>
      LET l == done[i].call.lvl
          t == IF BitAnd(done[j].call.tgt, ForScreen) # 0 THEN ForScreen ELSE ForLogfile
          clamped == IF l < LevelTrace THEN LevelTrace ELSE IF l >= LevelDiscard THEN LevelDiscard ELSE l
      IN done[j].resN = IF BitAnd(done[i].call.tgt, t) # 0 THEN clamped ELSE InitialThreshold(t)

C12_Witness ==
  \E i, j \in 1..Len(done) :
    i < j /\ done[i].call = CSetThreshold(LevelAll, ForScreen) /\ done[j].call = CThreshold(ForBoth)
      /\ done[j].resN = LevelDiscard

\* the newline flag of target t
NewlineFlag(t) == IF t = "scr" THEN screenNewline ELSE logfileNewline

\* C13: once an emission is done writing to a target, that target's newline flag
\* says whether the last successful write to it ended in 0x0A; and an emission
\* composes its first line without the prefix (SkipFirstLine) iff the flag of
\* its target was false when it read it.
C13_FlagTracksLastWrite ==
  \A p \in Procs :
    /\ (Running(p) /\ Top(p).fn = "Emit" /\ Top(p).pc \in {"logChk", "dying"}
          /\ Top(p).tgt \in Top(p).wt /\ ~Top(p).failed)
         => NewlineFlag(Top(p).tgt) = Top(p).lastNL
    /\ (Running(p) /\ Top(p).fn = "Emit" /\ Top(p).pc = "pP" /\ Top(p).phase = "msg")
         => (BitAnd(Top(p).ctrl, SkipFirstLine) # 0 <=> ~NewlineFlag(Top(p).tgt))

\* the completed calls of the function named fn
PureDone(fn) == {done[i] : i \in {j \in 1..Len(done) : done[j].fn = fn}}

\* the decision the stack-trace policy describes for an effective configuration cfg
ExpectWanted(cfg, lvl, terminal, exitVal, tgt) ==
  IF BitAnd(cfg, tgt) = 0 THEN FALSE
  ELSE IF BitAnd(cfg, StackTraceNonZeroErrorExit) # 0 THEN terminal /\ exitVal # 0
  ELSE IF BitAnd(cfg, StackTraceErrorExit) # 0 THEN terminal /\ lvl >= LevelIssue
  ELSE IF BitAnd(cfg, StackTraceAllIssues) # 0 THEN lvl >= LevelIssue
  ELSE FALSE

\* C14: without an override, stackTraceWanted is false when the target is not in
\* the configured mask, and otherwise follows the trigger classes in priority
\* order NonZeroExit, AnyExit, AllIssues; with {logfile, NonZeroExit}:
\* (true,2,logfile) true, (true,0,logfile) false, (false,2,logfile) false,
\* and any screen query false.
C14_StackTraceWantedPriority ==
  \A d \in PureDone("stackTraceWanted") : env.st = <<>> =>
    LET c == d.call IN
    /\ d.resB = ExpectWanted(stackTraceConfig, c.lvl, c.term, c.ev, c.tgt)
    /\ stackTraceConfig = ForLogfile + StackTraceNonZeroErrorExit =>
         /\ (c.term /\ c.ev = 2 /\ c.tgt = ForLogfile) => d.resB
         /\ (c.term /\ c.ev = 0 /\ c.tgt = ForLogfile) => ~d.resB
         /\ (~c.term /\ c.ev = 2 /\ c.tgt = ForLogfile) => ~d.resB
         /\ c.tgt = ForScreen => ~d.resB

C14_Witness ==
  \E d \in PureDone("stackTraceWanted") :
    env.st = <<>> /\ stackTraceConfig = ForLogfile + StackTraceNonZeroErrorExit
    /\ d.call.term /\ d.call.ev = 2 /\ d.call.tgt = ForLogfile /\ d.resB

\* the bits one override token stands for
TokBits(t) ==
  CASE ToLower(t) = TokScreen -> ForScreen
    [] ToLower(t) = TokLogfile -> ForLogfile
    [] ToLower(t) = TokBoth -> ForBoth
    [] ToLower(t) = TokNonzeroerrorexit -> StackTraceNonZeroErrorExit
    [] ToLower(t) = TokErrorexit -> StackTraceErrorExit
    [] ToLower(t) \in {TokAllissues, TokAll} -> StackTraceAllIssues
    [] OTHER -> 0

\* the configuration a two-token override denotes: the union of its tokens,
\* "off" clearing what precedes it (tokens in any letter case)
DenotedCfg(toks) ==
  IF ToLower(toks[2]) = TokOff THEN 0
  ELSE BitOr(IF ToLower(toks[1]) = TokOff THEN 0 ELSE TokBits(toks[1]), TokBits(toks[2]))

\* C15: an override of exactly two tokens fully replaces the programmatic
\* configuration by the one it denotes; any other token count is ignored.
C15_OverrideReplaces ==
  \A d \in PureDone("stackTraceWanted") :
    LET c == d.call
        cfg == IF Len(env.st) = 2 THEN DenotedCfg(env.st) ELSE stackTraceConfig
    IN d.resB = ExpectWanted(cfg, c.lvl, c.term, c.ev, c.tgt)

C15_Witness ==
  \E d \in PureDone("stackTraceWanted") :
    env.st = <<TokLogfile, TokAll>> /\ d.call.tgt = ForLogfile /\ d.call.lvl >= LevelIssue
    /\ BitAnd(stackTraceConfig, ForLogfile) = 0 /\ ~d.call.term /\ d.resB

\* decimal text of an integer
SignedDigits(n) == IF n < 0 THEN <<"-">> \o Digits(-n) ELSE Digits(n)

\* the prefix with the code spliced before its only colon, when the condition holds
ExpectPrefix(pfx, code, cond) ==
  IF cond /\ Cardinality({i \in 1..Len(pfx) : pfx[i] = ":"}) = 1
  THEN LET k == CHOOSE i \in 1..Len(pfx) : pfx[i] = ":" IN
       SubSeq(pfx, 1, k - 1) \o <<" ", "#">> \o SignedDigits(code) \o SubSeq(pfx, k, Len(pfx))
  ELSE pfx

\* a one-line, non-empty text prefixed in the default mode
OneLineDefault(d) ==
  d.call.pfx # <<>> /\ d.call.arg = 0 /\ d.call.msg # <<>>
  /\ \A i \in 1..Len(d.call.msg) : d.call.msg[i] # NL

\* C16 (as stated): a non-zero code other than the sentinel is spliced as " #c:"
\* before the only colon of the prefix; otherwise the prefix is unchanged.
C16_CodeSplicedNonZero ==
  \A d \in PureDone("InsertPrefix") : OneLineDefault(d) =>
    d.resS = ExpectPrefix(d.call.pfx, d.call.code, d.call.code # 0 /\ d.call.code # DefaultErrCode)
             \o d.call.msg

\* C16 (amended): only a positive code other than the sentinel is spliced.
C16_CodeSplicedPositive ==
  \A d \in PureDone("InsertPrefix") : OneLineDefault(d) =>
    d.resS = ExpectPrefix(d.call.pfx, d.call.code, d.call.code > 0 /\ d.call.code # DefaultErrCode)
             \o d.call.msg

C16_Witness ==
  \E d \in PureDone("InsertPrefix") :
    OneLineDefault(d) /\ d.call.pfx = PfxError /\ d.call.code = 42
    /\ SubSeq(d.resS, 1, 11) = <<"E","r","r","o","r"," ","#","4","2",":"," ">>

\* C17: an empty prefix leaves the text unchanged in every mode and for every code.
C17_EmptyPrefixIdentity ==
  \A d \in PureDone("InsertPrefix") : d.call.pfx = <<>> => d.resS = d.call.msg

C17_Witness ==
  \E d \in PureDone("InsertPrefix") :
    d.call.pfx = <<>> /\ BitAnd(d.call.arg, AlwaysInsert) # 0 /\ d.call.code = 42
    /\ Len(d.call.msg) = MaxLen /\ d.call.msg[1] = "a" /\ d.call.msg[2] = NL

\* C18: a non-empty one-line text with a non-empty prefix, default mode and no
\* code gives prefix + text.
C18_OneLinePrefixed ==
  \A d \in PureDone("InsertPrefix") : (OneLineDefault(d) /\ d.call.code = DefaultErrCode) =>
    d.resS = d.call.pfx \o d.call.msg

C18_Witness ==
  \E d \in PureDone("InsertPrefix") :
    OneLineDefault(d) /\ d.call.code = DefaultErrCode /\ d.call.pfx = PfxError /\ Len(d.call.msg) = MaxLen

\* the lines the prefix goes on: all but an empty last segment and, under
\* SkipFirstLine without AlwaysInsert, the first
ClaimPrefixed(i, n, seg, ctrl) ==
  /\ ~(i = n /\ seg = <<>>)
  /\ ~(i = 1 /\ BitAnd(ctrl, SkipFirstLine) # 0 /\ BitAnd(ctrl, AlwaysInsert) = 0)

\* C19 (as stated): an empty last segment is never prefixed (a trailing newline
\* stays last), and stripping the leading p from every prefixed line of the
\* result gives back the text.
C19_RoundTripAsStated ==
  \A d \in PureDone("InsertPrefix") : d.call.pfx # <<>> =>
    LET x == d.call.msg
        pfx == d.call.pfx
        m == d.call.arg
        ls == SplitOn(x, NL)
        rs == SplitOn(d.resS, NL)
        n == Len(ls)
    IN /\ Last(ls) = <<>> => Last(rs) = <<>>
       /\ Len(rs) = n
       /\ \A i \in 1..n : ClaimPrefixed(i, n, ls[i], m) =>
            Len(rs[i]) >= Len(pfx) /\ SubSeq(rs[i], 1, Len(pfx)) = pfx
       /\ JoinOn([i \in 1..n |-> IF ClaimPrefixed(i, n, ls[i], m)
                                 THEN SubSeq(rs[i], Len(pfx) + 1, Len(rs[i])) ELSE rs[i]], NL) = x

\* the text InsertPrefix puts before a prefixed line: p with a positive,
\* non-sentinel code spliced before its only colon, or (BlankInsert without
\* AlwaysInsert) that many blanks
InsertedPrefix(pfx, code, m) ==
  LET ep == ExpectPrefix(pfx, code, code > 0 /\ code # DefaultErrCode) IN
  IF BitAnd(m, BlankInsert) # 0 /\ BitAnd(m, AlwaysInsert) = 0 THEN Spaces(Len(ep)) ELSE ep

\* C19 (amended): an empty last segment is never prefixed (a trailing newline
\* stays last); stripping the text actually inserted (p only without BlankInsert
\* and without a spliced code) from every prefixed line gives back the text.
C19_RoundTrip ==
  \A d \in PureDone("InsertPrefix") : d.call.pfx # <<>> =>
    LET x == d.call.msg
        q == InsertedPrefix(d.call.pfx, d.call.code, d.call.arg)
        m == d.call.arg
        ls == SplitOn(x, NL)
        rs == SplitOn(d.resS, NL)
        n == Len(ls)
    IN /\ Last(ls) = <<>> => Last(rs) = <<>>
       /\ Len(rs) = n
       /\ \A i \in 1..n : ClaimPrefixed(i, n, ls[i], m) =>
            Len(rs[i]) >= Len(q) /\ SubSeq(rs[i], 1, Len(q)) = q
       /\ JoinOn([i \in 1..n |-> IF ClaimPrefixed(i, n, ls[i], m)
                                 THEN SubSeq(rs[i], Len(q) + 1, Len(rs[i])) ELSE rs[i]], NL) = x

C19_Witness ==
  \E d \in PureDone("InsertPrefix") :
    d.call.pfx = PfxError /\ d.call.msg = <<"a", NL>> /\ d.call.arg = BlankInsert
    /\ d.call.code = 42
    /\ d.resS = Spaces(Len(PfxError) + 4) \o <<"a", NL>>

\* C20: SkipFirstLine without AlwaysInsert never prefixes the first line, with or
\* without BlankInsert; AlwaysInsert clears the other bits and puts the literal
\* prefix (no code given) on every line but an empty last one.
C20_SkipAndAlways ==
  \A d \in PureDone("InsertPrefix") : d.call.pfx # <<>> =>
    LET m == d.call.arg
        ls == SplitOn(d.call.msg, NL)
        n == Len(ls)
    IN /\ (BitAnd(m, SkipFirstLine) # 0 /\ BitAnd(m, AlwaysInsert) = 0) =>
            SplitOn(d.resS, NL)[1] = ls[1]
       /\ (BitAnd(m, AlwaysInsert) # 0 /\ d.call.code \in {0, DefaultErrCode}) =>
            d.resS = JoinOn([i \in 1..n |-> IF i = n /\ ls[i] = <<>> THEN ls[i] ELSE d.call.pfx \o ls[i]], NL)

C20_Witness ==
  \E d \in PureDone("InsertPrefix") :
    d.call.arg = AlwaysInsert + SkipFirstLine + BlankInsert /\ d.call.pfx = PfxError
    /\ d.call.msg = <<"a", NL, "a">> /\ d.call.code = DefaultErrCode
    /\ d.resS = PfxError \o <<"a", NL>> \o PfxError \o <<"a">>

\* a finished Noteln("hi") that ran with the default thresholds, the NOTE
\* channel's default prefix, flags and screen handle, and the screen at a fresh line
DefaultNoteln(d) ==
  /\ d.call = CNoteln
  /\ d.sThr = LevelInfo /\ d.lThr = LevelDiscard
  /\ d.upfx = PfxNote /\ d.uflags = 0 /\ d.hndl = "stdout"
  /\ BitAnd(d.ctrl, SkipFirstLine) = 0

\* C21: with the defaults, Noteln("hi") writes exactly "Note: hi\n" to the
\* screen and nothing to the logfile.
C21_NotelnDefault ==
  \A i \in 1..Len(done) : DefaultNoteln(done[i]) =>
    /\ CallBytes("stdout", done[i].proc, done[i].k) = PfxNote \o MsgHi \o <<NL>>
    /\ CallBytes("stderr", done[i].proc, done[i].k) = <<>>
    /\ done[i].wt = {"scr"}

C21_Witness == \E i \in 1..Len(done) : DefaultNoteln(done[i]) /\ done[i].wt # {}

\* C22 safety part: a terminal emission whose write failed has reported the error
\* on stderr and called the hook once with the error exit value; it ended the
\* process with that value, or returned in test mode.
FailedTerminalSafe ==
  /\ \A i \in 1..Len(done) :
       (done[i].fn = "Emit" /\ done[i].term /\ done[i].failed) =>
         /\ env.noExit
         /\ done[i].hooks = HooksFor(errorExitVal)
         /\ <<"<write error>">> = CallBytes("stderr", done[i].proc, done[i].k)
  /\ (exited /\ exitCall.fn = "Emit" /\ exitCall.term /\ exitCall.failed) =>
         /\ exitCode = errorExitVal
         /\ exitCall.hooks = HooksFor(errorExitVal)
         /\ <<"<write error>">> = CallBytes("stderr", exitCall.proc, exitCall.k)

\* a terminal emission whose write failed has not finished
FailedTerminalPending ==
  \E p \in Procs : Running(p) /\ \E i \in 1..Len(stk[p]) :
    stk[p][i].fn = "Emit" /\ stk[p][i].term /\ stk[p][i].failed

\* C22: a terminal emission whose write fails still runs the termination
\* protocol (hook once with the error exit value, then exit with it unless in
\* test mode), and a hook that does not call back into the package lets it finish.
C22_FailedTerminalTerminates ==
  /\ []FailedTerminalSafe
  /\ (FailedTerminalPending /\ deferFunc # "note") ~> ~FailedTerminalPending

C22_Witness ==
  /\ exited /\ exitCall.fn = "Emit" /\ exitCall.term /\ exitCall.failed
  /\ exitCall.call.ev = 2 /\ exitCall.hooks = <<-1>>

\* Exit calls that have finished: returned, or ended the process
ExitCalls ==
  {done[i] : i \in {j \in 1..Len(done) : done[j].fn = "Exit"}}
  \cup (IF exited /\ exitCall.fn = "Exit" THEN {exitCall} ELSE {})

\* every write of call d is (part of) a stack trace or the write-error report
OnlyTraceWrites(d) ==
  \A h \in Hndls : \A i \in 1..Len(sink[h]) :
    (sink[h][i].p = d.proc /\ sink[h][i].k = d.k) =>
      (\E j \in 1..Len(sink[h][i].b) : sink[h][i].b[j] = "Stack Trace: ") \/ sink[h][i].b = <<"<write error>">>

\* C23 (as stated): Exit(v) writes no message, writes a stack trace only if
\* v # 0, calls the hook with v and terminates with v unless in test mode.
C23_ExitAsStated ==
  /\ \A d \in ExitCalls : OnlyTraceWrites(d) /\ (d.wt # {} => d.call.ev # 0)
  /\ \A i \in 1..Len(done) : done[i].fn = "Exit" => done[i].hooks = HooksFor(done[i].call.ev)
  /\ (exited /\ exitCall.fn = "Exit") => exitCode = exitCall.call.ev /\ exitCall.hooks = HooksFor(exitCall.call.ev)

\* C23 (amended): as stated, except when the screen stack-trace write fails: the
\* error goes to stderr, the hook gets the error exit value and the process
\* exits with it; in test mode exit() then goes on and calls the hook with v too.
C23_ExitAmended ==
  /\ \A d \in ExitCalls : OnlyTraceWrites(d) /\ (d.wt # {} => d.call.ev # 0)
  /\ \A i \in 1..Len(done) : done[i].fn = "Exit" =>
       /\ env.noExit
       /\ done[i].hooks = (IF done[i].failed THEN HooksFor(errorExitVal) ELSE <<>>) \o HooksFor(done[i].call.ev)
  /\ (exited /\ exitCall.fn = "Exit") =>
       IF exitCall.failed /\ exitCall.pc = "exErrExit"
       THEN exitCode = errorExitVal /\ exitCall.hooks = HooksFor(errorExitVal)
       ELSE exitCode = exitCall.call.ev /\ exitCall.hooks = HooksFor(exitCall.call.ev)

C23_Witness ==
  /\ exited /\ exitCall.fn = "Exit" /\ exitCall.wt # {} /\ exitCode = 2 /\ exitCall.hooks = <<2>>
  /\ \E i \in 1..Len(sink["stderr"]) : sink["stderr"][i].p = exitCall.proc

\* the writes of frame f to target t, in order
WritesTo(f, t) == SelectSeq(f.wseq, LAMBDA w : w.t = t)

\* C24: when a terminal emission's message leaves its target mid-line, exactly
\* one corrective newline follows it, before any stack trace, and the flag is
\* then true; a non-terminal emission never writes one.
C24_CorrectiveNewline ==
  /\ \A d \in FinishedEmits : \A t \in {"scr", "log"} :
       LET ws == WritesTo(d, t)
           nls == {i \in 1..Len(ws) : ws[i].kind = "nl"}
       IN /\ ~d.term => nls = {}
          /\ (d.term /\ Len(ws) > 0 /\ ws[1].kind = "msg") =>
               IF ws[1].nl THEN nls = {}
               ELSE nls = {2} /\ \A i \in 1..Len(ws) : ws[i].kind = "st" => i > 2
  /\ \A p \in Procs : (Running(p) /\ Top(p).fn = "Emit" /\ Top(p).pc = "wST" /\ Top(p).term)
       => NewlineFlag(Top(p).tgt)

C24_Witness ==
  \E d \in FinishedEmits : \E t \in {"scr", "log"} :
    LET ws == WritesTo(d, t) IN
      Len(ws) = 3 /\ ws[1].kind = "msg" /\ ws[2].kind = "nl" /\ ws[3].kind = "st"

\* the elements of a sequence
Range(sq) == {sq[i] : i \in DOMAIN sq}

\* a stack-trace write w of finished emission d to the target d last wrote,
\* composed with d's prefix and no metadata flags
StackWriteOf(d, w) ==
  w.kind = "st" /\ w.t = d.tgt /\ d.upfx # <<>> /\ d.uflags = 0

\* C25 (as stated): the lines of a stack trace start with blanks of the
\* prefix's length, not with the level prefix.
C25_StackBlankPrefixed ==
  \A d \in FinishedEmits : \A i \in 1..Len(d.wseq) : StackWriteOf(d, d.wseq[i]) =>
    \A ln \in {l \in Range(SplitOn(d.wseq[i].b, NL)) : l # <<>>} :
      Len(ln) >= Len(d.upfx) /\ SubSeq(ln, 1, Len(d.upfx)) = Spaces(Len(d.upfx))

\* C26: with a debug-scope filter, a Trace/Debug emission from a function whose
\* name contains none of the filter's parts writes nothing to a target and does
\* not touch its newline flag; Verbose and above are never suppressed; whether a
\* target is attempted still follows its own threshold.
C26_ScopeFilter ==
  /\ \A d \in FinishedEmits :
       /\ (d.lvl \in {LevelTrace, LevelDebug} /\ env.scope # <<>>
           /\ ~\E i \in 1..Len(env.scope) : Contains(d.call.site, env.scope[i])) => d.wt = {}
       /\ d.lvl >= LevelVerbose => d.supp = {}
       /\ \A t \in {"scr", "log"} : (~d.failed /\ d.fno = {}) =>
            ((t \in d.wt \cup d.supp) <=> (d.lvl >= ThrOf(d, t) /\ d.lvl # LevelDiscard))
  /\ \A p \in Procs :
       (Running(p) /\ Top(p).fn = "Emit" /\ Top(p).pc \in {"logChk", "dying"} /\ Top(p).tgt \in Top(p).supp)
         => nlVer[Top(p).tgt] = Top(p).rdVer

C26_Witness ==
  \E d \in FinishedEmits :
    d.call = CDebugln /\ d.supp = {"scr", "log"} /\ d.wt = {}

\* the text a NOTE emission composes natively for target t from x, off a fresh
\* line: the level prefix, then the target's metadata leader
NativeNote(x, t) ==
  LET fl == IF t = "scr" THEN chan[LevelNote].screenFlags ELSE chan[LevelNote].logFlags
      s1 == InsertPrefix(x, chan[LevelNote].prefix, SmartInsert, DefaultErrCode)
  IN IF FlagString(fl, LevelNote) = <<>> THEN s1 ELSE InsertPrefix(s1, FlagString(fl, LevelNote), SmartInsert, 0)

\* the message writes of emission d to target t
MsgWritesTo(d, t) == SelectSeq(WritesTo(d, t), LAMBDA w : w.kind = "msg")

\* C27: with a formatter registered, a target covered by its applicability mask
\* gets the replacement text, is suppressed when the suppression mask covers it,
\* and gets no prefix/metadata when skipNativePfx is set; a target not covered
\* gets the original message natively prefixed and is never suppressed by the
\* formatter.
C27_FormatterPerTarget ==
  \A d \in FinishedEmits : (d.lvl = LevelNote /\ env.fmtr.set) =>
    \A t \in {"scr", "log"} :
      LET cov == BitAnd(env.fmtr.apply, TgtBit(t)) # 0
          gated == d.lvl >= ThrOf(d, t) /\ d.lvl # LevelDiscard
          out == gated /\ ~(cov /\ BitAnd(env.fmtr.noOut, TgtBit(t)) # 0)
          txt == IF ~cov THEN NativeNote(MsgOf(d.call), t)
                 ELSE IF env.fmtr.skip THEN FmtRes ELSE NativeNote(FmtRes, t)
      IN IF out THEN Len(MsgWritesTo(d, t)) = 1 /\ MsgWritesTo(d, t)[1].b = txt
         ELSE MsgWritesTo(d, t) = <<>>

C27_Witness ==
  \E d \in FinishedEmits :
    /\ env.fmtr.set /\ env.fmtr.apply = ForScreen /\ env.fmtr.noOut = ForBoth /\ env.fmtr.skip
    /\ d.uflags # 0 /\ Len(MsgWritesTo(d, "log")) = 1 /\ MsgWritesTo(d, "scr") = <<>>

\* the leader as the claim orders it: [pid], level name, date, time, file/func
ClaimLeader(flags) ==
  <<>> \o (IF BitAnd(flags, Lpid) # 0 THEN <<"[<pid>] ">> ELSE <<>>)
       \o (IF BitAnd(flags, Llevel) # 0 THEN <<"<LEVEL>">> ELSE <<>>)
       \o (IF BitAnd(flags, Ldate) # 0 THEN <<"<date> ">> ELSE <<>>)
       \o (IF BitAnd(flags, Lmicroseconds) # 0 THEN <<"<time.micro> ">>
           ELSE IF BitAnd(flags, Ltime) # 0 THEN <<"<time> ">> ELSE <<>>)
       \o (IF BitAnd(flags, Lshortfile + Llongfile) # 0 THEN <<"<file:line[:func]>: ">> ELSE <<>>)

\* C28: with an empty metadata flag set a target gets exactly the level-prefixed
\* message; otherwise every prefixed line is leader + level prefix + text, the
\* leader's fields in the order [pid], level name, date, time, file/func.
C28_LeaderOrder ==
  \A d \in FinishedEmits : \A t \in {"scr", "log"} \ d.fskip :
    \A i \in 1..Len(MsgWritesTo(d, t)) :
      LET w == MsgWritesTo(d, t)[i]
          c == d.comp[t]
          x == d.fstr[t]
          ls == SplitOn(x, NL)
          rs == SplitOn(w.b, NL)
          n == Len(ls)
      IN IF c.flags = 0 THEN w.b = InsertPrefix(x, c.pfx, c.ctrl, DefaultErrCode)
         ELSE /\ Len(rs) = n
              /\ \A j \in 1..n :
                   rs[j] = IF ClaimPrefixed(j, n, ls[j], c.ctrl) THEN ClaimLeader(c.flags) \o c.pfx \o ls[j]
                           ELSE ls[j]

C28_Witness ==
  \E d \in FinishedEmits :
    /\ Len(MsgWritesTo(d, "log")) = 1 /\ d.comp["log"].pfx # <<>>
    /\ BitAnd(d.comp["log"].flags, Lpid) # 0 /\ BitAnd(d.comp["log"].flags, Llevel) # 0

\* C29: an emission whose composed text for an active target is empty completes
\* without a runtime fault: a non-terminal emission whose writes all succeeded
\* never ends the process.
C29_EmptyTextCompletes ==
  exited => ~(exitCall.fn = "Emit" /\ ~exitCall.term /\ ~exitCall.failed /\ exitCall.txt = <<>>)

\* C30: an emission of any form (print, line or formatted) carrying a
\* DetailedError binds it to the emitting level channel before any output.
C30_DetErrBound ==
  /\ \A p \in Procs : \A i \in 1..Len(stk[p]) :
       LET f == stk[p][i] IN
         (f.fn = "Emit" /\ f.call.det /\ f.pc # "wrap") => f.lvl \in f.bound
  /\ \A d \in FinishedEmits : d.call.det => d.lvl \in d.bound

====
